---- MODULE Spec2Model ----
(***************************************************************************)
(* The filter-and-summarize pass of display_analysis (analysis_tab.py):    *)
(* the age slider and the twelve select boxes, the combined boolean mask,  *)
(* the three-way describe() comparison table and the distribution-chart    *)
(* decision.  Streamlit reruns display_analysis on every widget change, so *)
(* every action is one widget change followed by one full pass.            *)
(***************************************************************************)
EXTENDS Integers, Sequences, FiniteSets, TLC

(***************************************************************************)
(* Bounds of the exploration.                                              *)
(***************************************************************************)
\* number of records of the input file
NumRows == 12
\* input files explored: 0 .. MaxFile
MaxFile == 1
\* select boxes that are away from None at the same time
MaxActive == 1

(***************************************************************************)
(* Cell values.  A cell or a select-box option is a Python string, a       *)
(* number, NaN (a missing value) or None.                                  *)
(***************************************************************************)
\* A sequence written as [k \in 1..n |-> e], evaluated once into its elements
\* (a DataFrame or Series is a materialised value, not a deferred expression)
Eval(s) == SubSeq(s, 1, Len(s))

\* the character of s at position k
CharAt(s, k) == SubSeq(s, k, k)

\* A Python string is the sequence of its code points.  CodeMaps gives the
\* code points of the characters a string written in this module can hold,
\* in runs: each run is a code point and the characters that follow from it
\* on, one code point apart, and gives the function from these characters to
\* their code points.
CodeMaps ==
  { [c \in {CharAt(run[2], k) : k \in 1..Len(run[2])} |->
       run[1] - 1 + CHOOSE k \in 1..Len(run[2]) : CharAt(run[2], k) = c] :
    run \in
      { << 32, " !\"#$%&'()*+,-./0123456789:;<=>?@ABCDEFGHIJKLMNOPQRSTUVWXYZ[\\]^_" >>,
        << 97, "abcdefghijklmnopqrstuvwxyz{|}~" >>,
        << 161, "¡¢£¤¥¦§¨©ª«¬­®¯°±²³´µ¶·¸¹º»¼½¾¿ÀÁÂÃÄÅÆÇÈÉÊËÌÍÎÏÐÑÒÓÔÕÖ×ØÙÚÛÜÝÞßàáâãäåæçèéêëìíîïðñòóôõö÷øùúûüýþÿ" >>,
        << 384, "ƀƁƂƃƄƅƆƇƈƉƊƋƌƍƎƏƐƑƒƓƔƕƖƗƘƙƚƛƜƝƞƟƠơƢƣƤƥƦƧƨƩƪƫƬƭƮƯưƱƲƳƴƵƶƷƸƹƺƻƼƽƾƿǀǁǂǃǄǅǆǇǈǉǊǋǌǍǎǏǐǑǒǓǔǕǖǗǘǙǚǛǜǝǞǟǠǡǢǣǤǥǦǧǨǩǪǫǬǭǮǯǰǱǲǳǴǵǶǷǸǹǺǻǼǽǾǿ" >>,
        << 640, "ʀʁʂʃʄʅʆʇʈʉʊʋʌʍʎʏʐʑʒʓʔʕʖʗʘʙʚʛʜʝʞʟʠʡʢʣʤʥʦʧʨʩʪʫʬʭʮʯʰʱʲʳʴʵʶʷʸʹʺʻʼʽʾʿˀˁ˂˃˄˅ˆˇˈˉˊˋˌˍˎˏːˑ˒˓˔˕˖˗˘˙˚˛˜˝˞˟ˠˡˢˣˤ˥˦˧˨˩˪˫ˬ˭ˮ˯˰˱˲˳˴˵˶˷˸˹˺˻˼˽˾˿" >>,
        << 896, "΀΁΂΃΄΅Ά·ΈΉΊ΋Ό΍ΎΏΐΑΒΓΔΕΖΗΘΙΚΛΜΝΞΟΠΡ΢ΣΤΥΦΧΨΩΪΫάέήίΰαβγδεζηθικλμνξοπρςστυφχψωϊϋόύώϏϐϑϒϓϔϕϖϗϘϙϚϛϜϝϞϟϠϡϢϣϤϥϦϧϨϩϪϫϬϭϮϯϰϱϲϳϴϵ϶ϷϸϹϺϻϼϽϾϿ" >>,
        << 1152, "Ҁҁ҂҃҄҅҆҇҈҉ҊҋҌҍҎҏҐґҒғҔҕҖҗҘҙҚқҜҝҞҟҠҡҢңҤҥҦҧҨҩҪҫҬҭҮүҰұҲҳҴҵҶҷҸҹҺһҼҽҾҿӀӁӂӃӄӅӆӇӈӉӊӋӌӍӎӏӐӑӒӓӔӕӖӗӘәӚӛӜӝӞӟӠӡӢӣӤӥӦӧӨөӪӫӬӭӮӯӰӱӲӳӴӵӶӷӸӹӺӻӼӽӾӿ" >>,
        << 1408, "րցւփքօֆևֈ։֊֋֌֍֎֏֐ְֱֲֳִֵֶַָֹֺֻּֽ֑֖֛֢֣֤֥֦֧֪֚֭֮֒֓֔֕֗֘֙֜֝֞֟֠֡֨֩֫֬֯־ֿ׀ׁׂ׃ׅׄ׆ׇ׈׉׊׋׌׍׎׏אבגדהוזחטיךכלםמןנסעףפץצקרשת׫׬׭׮ׯװױײ׳״׵׶׷׸׹׺׻׼׽׾׿" >>,
        << 1664, "ڀځڂڃڄڅچڇڈډڊڋڌڍڎڏڐڑڒړڔڕږڗژڙښڛڜڝڞڟڠڡڢڣڤڥڦڧڨکڪګڬڭڮگڰڱڲڳڴڵڶڷڸڹںڻڼڽھڿۀہۂۃۄۅۆۇۈۉۊۋیۍێۏېۑےۓ۔ەۖۗۘۙۚۛۜ۝۞ۣ۟۠ۡۢۤۥۦۧۨ۩۪ۭ۫۬ۮۯ۰۱۲۳۴۵۶۷۸۹ۺۻۼ۽۾ۿ" >>,
        << 1920, "ހށނރބޅކއވމފދތލގޏސޑޒޓޔޕޖޗޘޙޚޛޜޝޞޟޠޡޢޣޤޥަާިީުޫެޭޮޯްޱ޲޳޴޵޶޷޸޹޺޻޼޽޾޿߀߁߂߃߄߅߆߇߈߉ߊߋߌߍߎߏߐߑߒߓߔߕߖߗߘߙߚߛߜߝߞߟߠߡߢߣߤߥߦߧߨߩߪ߲߫߬߭߮߯߰߱߳ߴߵ߶߷߸߹ߺ߻߼߽߾߿" >>,
        << 2176, "ࢀࢁࢂࢃࢄࢅࢆࢇ࢈ࢉࢊࢋࢌࢍࢎ࢏࢐࢑࢒࢓࢔࢕࢖࢙࢚࢛ࢗ࢘࢜࢝࢞࢟ࢠࢡࢢࢣࢤࢥࢦࢧࢨࢩࢪࢫࢬࢭࢮࢯࢰࢱࢲࢳࢴࢵࢶࢷࢸࢹࢺࢻࢼࢽࢾࢿࣀࣁࣂࣃࣄࣅࣆࣇࣈࣉ࣏࣐࣑࣒࣓࣊࣋࣌࣍࣎ࣔࣕࣖࣗࣘࣙࣚࣛࣜࣝࣞࣟ࣠࣡࣢ࣰࣱࣲࣣࣦࣩ࣭࣮࣯ࣶࣹࣺࣤࣥࣧࣨ࣪࣫࣬ࣳࣴࣵࣷࣸࣻࣼࣽࣾࣿ" >>,
        << 2432, "ঀঁংঃ঄অআইঈউঊঋঌ঍঎এঐ঑঒ওঔকখগঘঙচছজঝঞটঠডঢণতথদধন঩পফবভমযর঱ল঳঴঵শষসহ঺঻়ঽািীুূৃৄ৅৆েৈ৉৊োৌ্ৎ৏৐৑৒৓৔৕৖ৗ৘৙৚৛ড়ঢ়৞য়ৠৡৢৣ৤৥০১২৩৪৫৬৭৮৯ৰৱ৲৳৴৵৶৷৸৹৺৻ৼ৽৾৿" >>,
        << 2688, "઀ઁંઃ઄અઆઇઈઉઊઋઌઍ઎એઐઑ઒ઓઔકખગઘઙચછજઝઞટઠડઢણતથદધન઩પફબભમયર઱લળ઴વશષસહ઺઻઼ઽાિીુૂૃૄૅ૆ેૈૉ૊ોૌ્૎૏ૐ૑૒૓૔૕૖૗૘૙૚૛૜૝૞૟ૠૡૢૣ૤૥૦૧૨૩૪૫૬૭૮૯૰૱૲૳૴૵૶૷૸ૹૺૻૼ૽૾૿" >>,
        << 2944, "஀஁ஂஃ஄அஆஇஈஉஊ஋஌஍எஏஐ஑ஒஓஔக஖஗஘ஙச஛ஜ஝ஞட஠஡஢ணத஥஦஧நனப஫஬஭மயரறலளழவஶஷஸஹ஺஻஼஽ாிீுூ௃௄௅ெேை௉ொோௌ்௎௏ௐ௑௒௓௔௕௖ௗ௘௙௚௛௜௝௞௟௠௡௢௣௤௥௦௧௨௩௪௫௬௭௮௯௰௱௲௳௴௵௶௷௸௹௺௻௼௽௾௿" >>,
        << 3200, "ಀಁಂಃ಄ಅಆಇಈಉಊಋಌ಍ಎಏಐ಑ಒಓಔಕಖಗಘಙಚಛಜಝಞಟಠಡಢಣತಥದಧನ಩ಪಫಬಭಮಯರಱಲಳ಴ವಶಷಸಹ಺಻಼ಽಾಿೀುೂೃೄ೅ೆೇೈ೉ೊೋೌ್೎೏೐೑೒೓೔ೕೖ೗೘೙೚೛೜ೝೞ೟ೠೡೢೣ೤೥೦೧೨೩೪೫೬೭೮೯೰ೱೲೳ೴೵೶೷೸೹೺೻೼೽೾೿" >>,
        << 3456, "඀ඁංඃ඄අආඇඈඉඊඋඌඍඎඏඐඑඒඓඔඕඖ඗඘඙කඛගඝඞඟචඡජඣඤඥඦටඨඩඪණඬතථදධන඲ඳපඵබභමඹයර඼ල඾඿වශෂසහළෆ෇෈෉්෋෌෍෎ාැෑිීු෕ූ෗ෘෙේෛොෝෞෟ෠෡෢෣෤෥෦෧෨෩෪෫෬෭෮෯෰෱ෲෳ෴෵෶෷෸෹෺෻෼෽෾෿" >>,
        << 3712, "຀ກຂ຃ຄ຅ຆງຈຉຊ຋ຌຍຎຏຐຑຒຓດຕຖທຘນບປຜຝພຟຠມຢຣ຤ລ຦ວຨຩສຫຬອຮຯະັາຳິີຶື຺ຸູົຼຽ຾຿ເແໂໃໄ໅ໆ໇່້໊໋໌ໍ໎໏໐໑໒໓໔໕໖໗໘໙໚໛ໜໝໞໟ໠໡໢໣໤໥໦໧໨໩໪໫໬໭໮໯໰໱໲໳໴໵໶໷໸໹໺໻໼໽໾໿" >>,
        << 3968, "྄ཱྀྀྂྃ྅྆྇ྈྉྊྋྌྍྎྏྐྑྒྒྷྔྕྖྗ྘ྙྚྛྜྜྷྞྟྠྡྡྷྣྤྥྦྦྷྨྩྪྫྫྷྭྮྯྰྱྲླྴྵྶྷྸྐྵྺྻྼ྽྾྿࿀࿁࿂࿃࿄࿅࿆࿇࿈࿉࿊࿋࿌࿍࿎࿏࿐࿑࿒࿓࿔࿕࿖࿗࿘࿙࿚࿛࿜࿝࿞࿟࿠࿡࿢࿣࿤࿥࿦࿧࿨࿩࿪࿫࿬࿭࿮࿯࿰࿱࿲࿳࿴࿵࿶࿷࿸࿹࿺࿻࿼࿽࿾࿿" >>,
        << 4224, "ႀႁႂႃႄႅႆႇႈႉႊႋႌႍႎႏ႐႑႒႓႔႕႖႗႘႙ႚႛႜႝ႞႟ႠႡႢႣႤႥႦႧႨႩႪႫႬႭႮႯႰႱႲႳႴႵႶႷႸႹႺႻႼႽႾႿჀჁჂჃჄჅ჆Ⴧ჈჉჊჋჌Ⴭ჎჏აბგდევზთიკლმნოპჟრსტუფქღყშჩცძწჭხჯჰჱჲჳჴჵჶჷჸჹჺ჻ჼჽჾჿ" >>,
        << 4480, "ᆀᆁᆂᆃᆄᆅᆆᆇᆈᆉᆊᆋᆌᆍᆎᆏᆐᆑᆒᆓᆔᆕᆖᆗᆘᆙᆚᆛᆜᆝᆞᆟᆠᆡᆢᆣᆤᆥᆦᆧᆨᆩᆪᆫᆬᆭᆮᆯᆰᆱᆲᆳᆴᆵᆶᆷᆸᆹᆺᆻᆼᆽᆾᆿᇀᇁᇂᇃᇄᇅᇆᇇᇈᇉᇊᇋᇌᇍᇎᇏᇐᇑᇒᇓᇔᇕᇖᇗᇘᇙᇚᇛᇜᇝᇞᇟᇠᇡᇢᇣᇤᇥᇦᇧᇨᇩᇪᇫᇬᇭᇮᇯᇰᇱᇲᇳᇴᇵᇶᇷᇸᇹᇺᇻᇼᇽᇾᇿ" >>,
        << 4736, "ኀኁኂኃኄኅኆኇኈ኉ኊኋኌኍ኎኏ነኑኒናኔንኖኗኘኙኚኛኜኝኞኟአኡኢኣኤእኦኧከኩኪካኬክኮኯኰ኱ኲኳኴኵ኶኷ኸኹኺኻኼኽኾ኿ዀ዁ዂዃዄዅ዆዇ወዉዊዋዌውዎዏዐዑዒዓዔዕዖ዗ዘዙዚዛዜዝዞዟዠዡዢዣዤዥዦዧየዩዪያዬይዮዯደዱዲዳዴድዶዷዸዹዺዻዼዽዾዿ" >>,
        << 4992, "ᎀᎁᎂᎃᎄᎅᎆᎇᎈᎉᎊᎋᎌᎍᎎᎏ᎐᎑᎒᎓᎔᎕᎖᎗᎘᎙᎚᎛᎜᎝᎞᎟ᎠᎡᎢᎣᎤᎥᎦᎧᎨᎩᎪᎫᎬᎭᎮᎯᎰᎱᎲᎳᎴᎵᎶᎷᎸᎹᎺᎻᎼᎽᎾᎿᏀᏁᏂᏃᏄᏅᏆᏇᏈᏉᏊᏋᏌᏍᏎᏏᏐᏑᏒᏓᏔᏕᏖᏗᏘᏙᏚᏛᏜᏝᏞᏟᏠᏡᏢᏣᏤᏥᏦᏧᏨᏩᏪᏫᏬᏭᏮᏯᏰᏱᏲᏳᏴᏵ᏶᏷ᏸᏹᏺᏻᏼᏽ᏾᏿" >>,
        << 5248, "ᒀᒁᒂᒃᒄᒅᒆᒇᒈᒉᒊᒋᒌᒍᒎᒏᒐᒑᒒᒓᒔᒕᒖᒗᒘᒙᒚᒛᒜᒝᒞᒟᒠᒡᒢᒣᒤᒥᒦᒧᒨᒩᒪᒫᒬᒭᒮᒯᒰᒱᒲᒳᒴᒵᒶᒷᒸᒹᒺᒻᒼᒽᒾᒿᓀᓁᓂᓃᓄᓅᓆᓇᓈᓉᓊᓋᓌᓍᓎᓏᓐᓑᓒᓓᓔᓕᓖᓗᓘᓙᓚᓛᓜᓝᓞᓟᓠᓡᓢᓣᓤᓥᓦᓧᓨᓩᓪᓫᓬᓭᓮᓯᓰᓱᓲᓳᓴᓵᓶᓷᓸᓹᓺᓻᓼᓽᓾᓿ" >>,
        << 5504, "ᖀᖁᖂᖃᖄᖅᖆᖇᖈᖉᖊᖋᖌᖍᖎᖏᖐᖑᖒᖓᖔᖕᖖᖗᖘᖙᖚᖛᖜᖝᖞᖟᖠᖡᖢᖣᖤᖥᖦᖧᖨᖩᖪᖫᖬᖭᖮᖯᖰᖱᖲᖳᖴᖵᖶᖷᖸᖹᖺᖻᖼᖽᖾᖿᗀᗁᗂᗃᗄᗅᗆᗇᗈᗉᗊᗋᗌᗍᗎᗏᗐᗑᗒᗓᗔᗕᗖᗗᗘᗙᗚᗛᗜᗝᗞᗟᗠᗡᗢᗣᗤᗥᗦᗧᗨᗩᗪᗫᗬᗭᗮᗯᗰᗱᗲᗳᗴᗵᗶᗷᗸᗹᗺᗻᗼᗽᗾᗿ" >>,
        << 5760, " ᚁᚂᚃᚄᚅᚆᚇᚈᚉᚊᚋᚌᚍᚎᚏᚐᚑᚒᚓᚔᚕᚖᚗᚘᚙᚚ᚛᚜᚝᚞᚟ᚠᚡᚢᚣᚤᚥᚦᚧᚨᚩᚪᚫᚬᚭᚮᚯᚰᚱᚲᚳᚴᚵᚶᚷᚸᚹᚺᚻᚼᚽᚾᚿᛀᛁᛂᛃᛄᛅᛆᛇᛈᛉᛊᛋᛌᛍᛎᛏᛐᛑᛒᛓᛔᛕᛖᛗᛘᛙᛚᛛᛜᛝᛞᛟᛠᛡᛢᛣᛤᛥᛦᛧᛨᛩᛪ᛫᛬᛭ᛮᛯᛰᛱᛲᛳᛴᛵᛶᛷᛸ᛹᛺᛻᛼᛽᛾᛿" >>,
        << 6016, "កខគឃងចឆជឈញដឋឌឍណតថទធនបផពភមយរលវឝឞសហឡអឣឤឥឦឧឨឩឪឫឬឭឮឯឰឱឲឳ឴឵ាិីឹឺុូួើឿៀេែៃោៅំះៈ៉៊់៌៍៎៏័៑្៓។៕៖ៗ៘៙៚៛ៜ៝៞៟០១២៣៤៥៦៧៨៩៪៫៬៭៮៯៰៱៲៳៴៵៶៷៸៹៺៻៼៽៾៿" >>,
        << 6272, "ᢀᢁᢂᢃᢄᢅᢆᢇᢈᢉᢊᢋᢌᢍᢎᢏᢐᢑᢒᢓᢔᢕᢖᢗᢘᢙᢚᢛᢜᢝᢞᢟᢠᢡᢢᢣᢤᢥᢦᢧᢨᢩᢪ᢫᢬᢭᢮᢯ᢰᢱᢲᢳᢴᢵᢶᢷᢸᢹᢺᢻᢼᢽᢾᢿᣀᣁᣂᣃᣄᣅᣆᣇᣈᣉᣊᣋᣌᣍᣎᣏᣐᣑᣒᣓᣔᣕᣖᣗᣘᣙᣚᣛᣜᣝᣞᣟᣠᣡᣢᣣᣤᣥᣦᣧᣨᣩᣪᣫᣬᣭᣮᣯᣰᣱᣲᣳᣴᣵ᣶᣷᣸᣹᣺᣻᣼᣽᣾᣿" >>,
        << 6528, "ᦀᦁᦂᦃᦄᦅᦆᦇᦈᦉᦊᦋᦌᦍᦎᦏᦐᦑᦒᦓᦔᦕᦖᦗᦘᦙᦚᦛᦜᦝᦞᦟᦠᦡᦢᦣᦤᦥᦦᦧᦨᦩᦪᦫ᦬᦭᦮᦯ᦰᦱᦲᦳᦴᦵᦶᦷᦸᦹᦺᦻᦼᦽᦾᦿᧀᧁᧂᧃᧄᧅᧆᧇᧈᧉ᧊᧋᧌᧍᧎᧏᧐᧑᧒᧓᧔᧕᧖᧗᧘᧙᧚᧛᧜᧝᧞᧟᧠᧡᧢᧣᧤᧥᧦᧧᧨᧩᧪᧫᧬᧭᧮᧯᧰᧱᧲᧳᧴᧵᧶᧷᧸᧹᧺᧻᧼᧽᧾᧿" >>,
        << 6784, "᪀᪁᪂᪃᪄᪅᪆᪇᪈᪉᪊᪋᪌᪍᪎᪏᪐᪑᪒᪓᪔᪕᪖᪗᪘᪙᪚᪛᪜᪝᪞᪟᪠᪡᪢᪣᪤᪥᪦ᪧ᪨᪩᪪᪫᪬᪭᪮᪯᪵᪶᪷᪸᪹᪺᪽᪰᪱᪲᪳᪴᪻᪼᪾ᪿᫀ᫃᫄᫊᫁᫂᫅᫆᫇᫈᫉᫋ᫌᫍᫎ᫏᫐᫑᫒᫓᫔᫕᫖᫗᫘᫙᫚᫛᫜᫝᫞᫟᫠᫡᫢᫣᫤᫥᫦᫧᫨᫩᫪᫫᫬᫭᫮᫯᫰᫱᫲᫳᫴᫵᫶᫷᫸᫹᫺᫻᫼᫽᫾᫿" >>,
        << 7040, "ᮀᮁᮂᮃᮄᮅᮆᮇᮈᮉᮊᮋᮌᮍᮎᮏᮐᮑᮒᮓᮔᮕᮖᮗᮘᮙᮚᮛᮜᮝᮞᮟᮠᮡᮢᮣᮤᮥᮦᮧᮨᮩ᮪᮫ᮬᮭᮮᮯ᮰᮱᮲᮳᮴᮵᮶᮷᮸᮹ᮺᮻᮼᮽᮾᮿᯀᯁᯂᯃᯄᯅᯆᯇᯈᯉᯊᯋᯌᯍᯎᯏᯐᯑᯒᯓᯔᯕᯖᯗᯘᯙᯚᯛᯜᯝᯞᯟᯠᯡᯢᯣᯤᯥ᯦ᯧᯨᯩᯪᯫᯬᯭᯮᯯᯰᯱ᯲᯳᯴᯵᯶᯷᯸᯹᯺᯻᯼᯽᯾᯿" >>,
        << 7296, "ᲀᲁᲂᲃᲄᲅᲆᲇᲈᲉᲊ᲋᲌᲍᲎᲏ᲐᲑᲒᲓᲔᲕᲖᲗᲘᲙᲚᲛᲜᲝᲞᲟᲠᲡᲢᲣᲤᲥᲦᲧᲨᲩᲪᲫᲬᲭᲮᲯᲰᲱᲲᲳᲴᲵᲶᲷᲸᲹᲺ᲻᲼ᲽᲾᲿ᳀᳁᳂᳃᳄᳅᳆᳇᳈᳉᳊᳋᳌᳍᳎᳏᳐᳑᳒᳓᳔᳕᳖᳗᳘᳙᳜᳝᳞᳟᳚᳛᳠᳡᳢᳣᳤᳥᳦᳧᳨ᳩᳪᳫᳬ᳭ᳮᳯᳰᳱᳲᳳ᳴ᳵᳶ᳷᳸᳹ᳺ᳻᳼᳽᳾᳿" >>,
        << 7552, "ᶀᶁᶂᶃᶄᶅᶆᶇᶈᶉᶊᶋᶌᶍᶎᶏᶐᶑᶒᶓᶔᶕᶖᶗᶘᶙᶚᶛᶜᶝᶞᶟᶠᶡᶢᶣᶤᶥᶦᶧᶨᶩᶪᶫᶬᶭᶮᶯᶰᶱᶲᶳᶴᶵᶶᶷᶸᶹᶺᶻᶼᶽᶾᶿ᷐᷎᷺᷂᷊᷏᷹᷽᷿᷷᷸᷀᷁᷃᷄᷅᷆᷇᷈᷉᷋᷌᷑᷒ᷓᷔᷕᷖᷗᷘᷙᷚᷛᷜᷝᷞᷟᷠᷡᷢᷣᷤᷥᷦᷧᷨᷩᷪᷫᷬᷭᷮᷯᷰᷱᷲᷳᷴ᷵᷻᷾᷶᷼᷍" >>,
        << 7808, "ẀẁẂẃẄẅẆẇẈẉẊẋẌẍẎẏẐẑẒẓẔẕẖẗẘẙẚẛẜẝẞẟẠạẢảẤấẦầẨẩẪẫẬậẮắẰằẲẳẴẵẶặẸẹẺẻẼẽẾếỀềỂểỄễỆệỈỉỊịỌọỎỏỐốỒồỔổỖỗỘộỚớỜờỞởỠỡỢợỤụỦủỨứỪừỬửỮữỰựỲỳỴỵỶỷỸỹỺỻỼỽỾỿ" >>,
        << 8064, "ᾀᾁᾂᾃᾄᾅᾆᾇᾈᾉᾊᾋᾌᾍᾎᾏᾐᾑᾒᾓᾔᾕᾖᾗᾘᾙᾚᾛᾜᾝᾞᾟᾠᾡᾢᾣᾤᾥᾦᾧᾨᾩᾪᾫᾬᾭᾮᾯᾰᾱᾲᾳᾴ᾵ᾶᾷᾸᾹᾺΆᾼ᾽ι᾿῀῁ῂῃῄ῅ῆῇῈΈῊΉῌ῍῎῏ῐῑῒΐ῔῕ῖῗῘῙῚΊ῜῝῞῟ῠῡῢΰῤῥῦῧῨῩῪΎῬ῭΅`῰῱ῲῳῴ῵ῶῷῸΌῺΏῼ´῾῿" >>,
        << 8320, "₀₁₂₃₄₅₆₇₈₉₊₋₌₍₎₏ₐₑₒₓₔₕₖₗₘₙₚₛₜ₝₞₟₠₡₢₣₤₥₦₧₨₩₪₫€₭₮₯₰₱₲₳₴₵₶₷₸₹₺₻₼₽₾₿⃀⃁⃂⃃⃄⃅⃆⃇⃈⃉⃊⃋⃌⃍⃎⃏⃒⃓⃘⃙⃚⃐⃑⃔⃕⃖⃗⃛⃜⃝⃞⃟⃠⃡⃢⃣⃤⃥⃦⃪⃫⃨⃬⃭⃮⃯⃧⃩⃰⃱⃲⃳⃴⃵⃶⃷⃸⃹⃺⃻⃼⃽⃾⃿" >>,
        << 8576, "ↀↁↂↃↄↅↆↇↈ↉↊↋↌↍↎↏←↑→↓↔↕↖↗↘↙↚↛↜↝↞↟↠↡↢↣↤↥↦↧↨↩↪↫↬↭↮↯↰↱↲↳↴↵↶↷↸↹↺↻↼↽↾↿⇀⇁⇂⇃⇄⇅⇆⇇⇈⇉⇊⇋⇌⇍⇎⇏⇐⇑⇒⇓⇔⇕⇖⇗⇘⇙⇚⇛⇜⇝⇞⇟⇠⇡⇢⇣⇤⇥⇦⇧⇨⇩⇪⇫⇬⇭⇮⇯⇰⇱⇲⇳⇴⇵⇶⇷⇸⇹⇺⇻⇼⇽⇾⇿" >>,
        << 8832, "⊀⊁⊂⊃⊄⊅⊆⊇⊈⊉⊊⊋⊌⊍⊎⊏⊐⊑⊒⊓⊔⊕⊖⊗⊘⊙⊚⊛⊜⊝⊞⊟⊠⊡⊢⊣⊤⊥⊦⊧⊨⊩⊪⊫⊬⊭⊮⊯⊰⊱⊲⊳⊴⊵⊶⊷⊸⊹⊺⊻⊼⊽⊾⊿⋀⋁⋂⋃⋄⋅⋆⋇⋈⋉⋊⋋⋌⋍⋎⋏⋐⋑⋒⋓⋔⋕⋖⋗⋘⋙⋚⋛⋜⋝⋞⋟⋠⋡⋢⋣⋤⋥⋦⋧⋨⋩⋪⋫⋬⋭⋮⋯⋰⋱⋲⋳⋴⋵⋶⋷⋸⋹⋺⋻⋼⋽⋾⋿" >>,
        << 9088, "⎀⎁⎂⎃⎄⎅⎆⎇⎈⎉⎊⎋⎌⎍⎎⎏⎐⎑⎒⎓⎔⎕⎖⎗⎘⎙⎚⎛⎜⎝⎞⎟⎠⎡⎢⎣⎤⎥⎦⎧⎨⎩⎪⎫⎬⎭⎮⎯⎰⎱⎲⎳⎴⎵⎶⎷⎸⎹⎺⎻⎼⎽⎾⎿⏀⏁⏂⏃⏄⏅⏆⏇⏈⏉⏊⏋⏌⏍⏎⏏⏐⏑⏒⏓⏔⏕⏖⏗⏘⏙⏚⏛⏜⏝⏞⏟⏠⏡⏢⏣⏤⏥⏦⏧⏨⏩⏪⏫⏬⏭⏮⏯⏰⏱⏲⏳⏴⏵⏶⏷⏸⏹⏺⏻⏼⏽⏾⏿" >>,
        << 9344, "⒀⒁⒂⒃⒄⒅⒆⒇⒈⒉⒊⒋⒌⒍⒎⒏⒐⒑⒒⒓⒔⒕⒖⒗⒘⒙⒚⒛⒜⒝⒞⒟⒠⒡⒢⒣⒤⒥⒦⒧⒨⒩⒪⒫⒬⒭⒮⒯⒰⒱⒲⒳⒴⒵ⒶⒷⒸⒹⒺⒻⒼⒽⒾⒿⓀⓁⓂⓃⓄⓅⓆⓇⓈⓉⓊⓋⓌⓍⓎⓏⓐⓑⓒⓓⓔⓕⓖⓗⓘⓙⓚⓛⓜⓝⓞⓟⓠⓡⓢⓣⓤⓥⓦⓧⓨⓩ⓪⓫⓬⓭⓮⓯⓰⓱⓲⓳⓴⓵⓶⓷⓸⓹⓺⓻⓼⓽⓾⓿" >>,
        << 9600, "▀▁▂▃▄▅▆▇█▉▊▋▌▍▎▏▐░▒▓▔▕▖▗▘▙▚▛▜▝▞▟■□▢▣▤▥▦▧▨▩▪▫▬▭▮▯▰▱▲△▴▵▶▷▸▹►▻▼▽▾▿◀◁◂◃◄◅◆◇◈◉◊○◌◍◎●◐◑◒◓◔◕◖◗◘◙◚◛◜◝◞◟◠◡◢◣◤◥◦◧◨◩◪◫◬◭◮◯◰◱◲◳◴◵◶◷◸◹◺◻◼◽◾◿" >>,
        << 9856, "⚀⚁⚂⚃⚄⚅⚆⚇⚈⚉⚊⚋⚌⚍⚎⚏⚐⚑⚒⚓⚔⚕⚖⚗⚘⚙⚚⚛⚜⚝⚞⚟⚠⚡⚢⚣⚤⚥⚦⚧⚨⚩⚪⚫⚬⚭⚮⚯⚰⚱⚲⚳⚴⚵⚶⚷⚸⚹⚺⚻⚼⚽⚾⚿⛀⛁⛂⛃⛄⛅⛆⛇⛈⛉⛊⛋⛌⛍⛎⛏⛐⛑⛒⛓⛔⛕⛖⛗⛘⛙⛚⛛⛜⛝⛞⛟⛠⛡⛢⛣⛤⛥⛦⛧⛨⛩⛪⛫⛬⛭⛮⛯⛰⛱⛲⛳⛴⛵⛶⛷⛸⛹⛺⛻⛼⛽⛾⛿" >>,
        << 10112, "➀➁➂➃➄➅➆➇➈➉➊➋➌➍➎➏➐➑➒➓➔➕➖➗➘➙➚➛➜➝➞➟➠➡➢➣➤➥➦➧➨➩➪➫➬➭➮➯➰➱➲➳➴➵➶➷➸➹➺➻➼➽➾➿⟀⟁⟂⟃⟄⟅⟆⟇⟈⟉⟊⟋⟌⟍⟎⟏⟐⟑⟒⟓⟔⟕⟖⟗⟘⟙⟚⟛⟜⟝⟞⟟⟠⟡⟢⟣⟤⟥⟦⟧⟨⟩⟪⟫⟬⟭⟮⟯⟰⟱⟲⟳⟴⟵⟶⟷⟸⟹⟺⟻⟼⟽⟾⟿" >>,
        << 10368, "⢀⢁⢂⢃⢄⢅⢆⢇⢈⢉⢊⢋⢌⢍⢎⢏⢐⢑⢒⢓⢔⢕⢖⢗⢘⢙⢚⢛⢜⢝⢞⢟⢠⢡⢢⢣⢤⢥⢦⢧⢨⢩⢪⢫⢬⢭⢮⢯⢰⢱⢲⢳⢴⢵⢶⢷⢸⢹⢺⢻⢼⢽⢾⢿⣀⣁⣂⣃⣄⣅⣆⣇⣈⣉⣊⣋⣌⣍⣎⣏⣐⣑⣒⣓⣔⣕⣖⣗⣘⣙⣚⣛⣜⣝⣞⣟⣠⣡⣢⣣⣤⣥⣦⣧⣨⣩⣪⣫⣬⣭⣮⣯⣰⣱⣲⣳⣴⣵⣶⣷⣸⣹⣺⣻⣼⣽⣾⣿" >>,
        << 10624, "⦀⦁⦂⦃⦄⦅⦆⦇⦈⦉⦊⦋⦌⦍⦎⦏⦐⦑⦒⦓⦔⦕⦖⦗⦘⦙⦚⦛⦜⦝⦞⦟⦠⦡⦢⦣⦤⦥⦦⦧⦨⦩⦪⦫⦬⦭⦮⦯⦰⦱⦲⦳⦴⦵⦶⦷⦸⦹⦺⦻⦼⦽⦾⦿⧀⧁⧂⧃⧄⧅⧆⧇⧈⧉⧊⧋⧌⧍⧎⧏⧐⧑⧒⧓⧔⧕⧖⧗⧘⧙⧚⧛⧜⧝⧞⧟⧠⧡⧢⧣⧤⧥⧦⧧⧨⧩⧪⧫⧬⧭⧮⧯⧰⧱⧲⧳⧴⧵⧶⧷⧸⧹⧺⧻⧼⧽⧾⧿" >>,
        << 10880, "⪀⪁⪂⪃⪄⪅⪆⪇⪈⪉⪊⪋⪌⪍⪎⪏⪐⪑⪒⪓⪔⪕⪖⪗⪘⪙⪚⪛⪜⪝⪞⪟⪠⪡⪢⪣⪤⪥⪦⪧⪨⪩⪪⪫⪬⪭⪮⪯⪰⪱⪲⪳⪴⪵⪶⪷⪸⪹⪺⪻⪼⪽⪾⪿⫀⫁⫂⫃⫄⫅⫆⫇⫈⫉⫊⫋⫌⫍⫎⫏⫐⫑⫒⫓⫔⫕⫖⫗⫘⫙⫚⫛⫝̸⫝⫞⫟⫠⫡⫢⫣⫤⫥⫦⫧⫨⫩⫪⫫⫬⫭⫮⫯⫰⫱⫲⫳⫴⫵⫶⫷⫸⫹⫺⫻⫼⫽⫾⫿" >>,
        << 11136, "⮀⮁⮂⮃⮄⮅⮆⮇⮈⮉⮊⮋⮌⮍⮎⮏⮐⮑⮒⮓⮔⮕⮖⮗⮘⮙⮚⮛⮜⮝⮞⮟⮠⮡⮢⮣⮤⮥⮦⮧⮨⮩⮪⮫⮬⮭⮮⮯⮰⮱⮲⮳⮴⮵⮶⮷⮸⮹⮺⮻⮼⮽⮾⮿⯀⯁⯂⯃⯄⯅⯆⯇⯈⯉⯊⯋⯌⯍⯎⯏⯐⯑⯒⯓⯔⯕⯖⯗⯘⯙⯚⯛⯜⯝⯞⯟⯠⯡⯢⯣⯤⯥⯦⯧⯨⯩⯪⯫⯬⯭⯮⯯⯰⯱⯲⯳⯴⯵⯶⯷⯸⯹⯺⯻⯼⯽⯾⯿" >>,
        << 11392, "ⲀⲁⲂⲃⲄⲅⲆⲇⲈⲉⲊⲋⲌⲍⲎⲏⲐⲑⲒⲓⲔⲕⲖⲗⲘⲙⲚⲛⲜⲝⲞⲟⲠⲡⲢⲣⲤⲥⲦⲧⲨⲩⲪⲫⲬⲭⲮⲯⲰⲱⲲⲳⲴⲵⲶⲷⲸⲹⲺⲻⲼⲽⲾⲿⳀⳁⳂⳃⳄⳅⳆⳇⳈⳉⳊⳋⳌⳍⳎⳏⳐⳑⳒⳓⳔⳕⳖⳗⳘⳙⳚⳛⳜⳝⳞⳟⳠⳡⳢⳣⳤ⳥⳦⳧⳨⳩⳪ⳫⳬⳭⳮ⳯⳰⳱Ⳳⳳ⳴⳵⳶⳷⳸⳹⳺⳻⳼⳽⳾⳿" >>,
        << 11648, "ⶀⶁⶂⶃⶄⶅⶆⶇⶈⶉⶊⶋⶌⶍⶎⶏⶐⶑⶒⶓⶔⶕⶖ⶗⶘⶙⶚⶛⶜⶝⶞⶟ⶠⶡⶢⶣⶤⶥⶦ⶧ⶨⶩⶪⶫⶬⶭⶮ⶯ⶰⶱⶲⶳⶴⶵⶶ⶷ⶸⶹⶺⶻⶼⶽⶾ⶿ⷀⷁⷂⷃⷄⷅⷆ⷇ⷈⷉⷊⷋⷌⷍⷎ⷏ⷐⷑⷒⷓⷔⷕⷖ⷗ⷘⷙⷚⷛⷜⷝⷞ⷟ⷠⷡⷢⷣⷤⷥⷦⷧⷨⷩⷪⷫⷬⷭⷮⷯⷰⷱⷲⷳⷴⷵⷶⷷⷸⷹⷺⷻⷼⷽⷾⷿ" >>,
        << 11904, "⺀⺁⺂⺃⺄⺅⺆⺇⺈⺉⺊⺋⺌⺍⺎⺏⺐⺑⺒⺓⺔⺕⺖⺗⺘⺙⺚⺛⺜⺝⺞⺟⺠⺡⺢⺣⺤⺥⺦⺧⺨⺩⺪⺫⺬⺭⺮⺯⺰⺱⺲⺳⺴⺵⺶⺷⺸⺹⺺⺻⺼⺽⺾⺿⻀⻁⻂⻃⻄⻅⻆⻇⻈⻉⻊⻋⻌⻍⻎⻏⻐⻑⻒⻓⻔⻕⻖⻗⻘⻙⻚⻛⻜⻝⻞⻟⻠⻡⻢⻣⻤⻥⻦⻧⻨⻩⻪⻫⻬⻭⻮⻯⻰⻱⻲⻳⻴⻵⻶⻷⻸⻹⻺⻻⻼⻽⻾⻿" >>,
        << 12160, "⾀⾁⾂⾃⾄⾅⾆⾇⾈⾉⾊⾋⾌⾍⾎⾏⾐⾑⾒⾓⾔⾕⾖⾗⾘⾙⾚⾛⾜⾝⾞⾟⾠⾡⾢⾣⾤⾥⾦⾧⾨⾩⾪⾫⾬⾭⾮⾯⾰⾱⾲⾳⾴⾵⾶⾷⾸⾹⾺⾻⾼⾽⾾⾿⿀⿁⿂⿃⿄⿅⿆⿇⿈⿉⿊⿋⿌⿍⿎⿏⿐⿑⿒⿓⿔⿕⿖⿗⿘⿙⿚⿛⿜⿝⿞⿟⿠⿡⿢⿣⿤⿥⿦⿧⿨⿩⿪⿫⿬⿭⿮⿯⿰⿱⿲⿳⿴⿵⿶⿷⿸⿹⿺⿻⿼⿽⿾⿿" >>,
        << 12416, "むめもゃやゅゆょよらりるれろゎわゐゑをんゔゕゖ゗゘゙゚゛゜ゝゞゟ゠ァアィイゥウェエォオカガキギクグケゲコゴサザシジスズセゼソゾタダチヂッツヅテデトドナニヌネノハバパヒビピフブプヘベペホボポマミムメモャヤュユョヨラリルレロヮワヰヱヲンヴヵヶヷヸヹヺ・ーヽヾヿ" >>,
        << 12672, "ㆀㆁㆂㆃㆄㆅㆆㆇㆈㆉㆊㆋㆌㆍㆎ㆏㆐㆑㆒㆓㆔㆕㆖㆗㆘㆙㆚㆛㆜㆝㆞㆟ㆠㆡㆢㆣㆤㆥㆦㆧㆨㆩㆪㆫㆬㆭㆮㆯㆰㆱㆲㆳㆴㆵㆶㆷㆸㆹㆺㆻㆼㆽㆾㆿ㇀㇁㇂㇃㇄㇅㇆㇇㇈㇉㇊㇋㇌㇍㇎㇏㇐㇑㇒㇓㇔㇕㇖㇗㇘㇙㇚㇛㇜㇝㇞㇟㇠㇡㇢㇣㇤㇥㇦㇧㇨㇩㇪㇫㇬㇭㇮㇯ㇰㇱㇲㇳㇴㇵㇶㇷㇸㇹㇺㇻㇼㇽㇾㇿ" >>,
        << 12928, "㊀㊁㊂㊃㊄㊅㊆㊇㊈㊉㊊㊋㊌㊍㊎㊏㊐㊑㊒㊓㊔㊕㊖㊗㊘㊙㊚㊛㊜㊝㊞㊟㊠㊡㊢㊣㊤㊥㊦㊧㊨㊩㊪㊫㊬㊭㊮㊯㊰㊱㊲㊳㊴㊵㊶㊷㊸㊹㊺㊻㊼㊽㊾㊿㋀㋁㋂㋃㋄㋅㋆㋇㋈㋉㋊㋋㋌㋍㋎㋏㋐㋑㋒㋓㋔㋕㋖㋗㋘㋙㋚㋛㋜㋝㋞㋟㋠㋡㋢㋣㋤㋥㋦㋧㋨㋩㋪㋫㋬㋭㋮㋯㋰㋱㋲㋳㋴㋵㋶㋷㋸㋹㋺㋻㋼㋽㋾㋿" >>,
        << 13184, "㎀㎁㎂㎃㎄㎅㎆㎇㎈㎉㎊㎋㎌㎍㎎㎏㎐㎑㎒㎓㎔㎕㎖㎗㎘㎙㎚㎛㎜㎝㎞㎟㎠㎡㎢㎣㎤㎥㎦㎧㎨㎩㎪㎫㎬㎭㎮㎯㎰㎱㎲㎳㎴㎵㎶㎷㎸㎹㎺㎻㎼㎽㎾㎿㏀㏁㏂㏃㏄㏅㏆㏇㏈㏉㏊㏋㏌㏍㏎㏏㏐㏑㏒㏓㏔㏕㏖㏗㏘㏙㏚㏛㏜㏝㏞㏟㏠㏡㏢㏣㏤㏥㏦㏧㏨㏩㏪㏫㏬㏭㏮㏯㏰㏱㏲㏳㏴㏵㏶㏷㏸㏹㏺㏻㏼㏽㏾㏿" >>,
        << 13440, "㒀㒁㒂㒃㒄㒅㒆㒇㒈㒉㒊㒋㒌㒍㒎㒏㒐㒑㒒㒓㒔㒕㒖㒗㒘㒙㒚㒛㒜㒝㒞㒟㒠㒡㒢㒣㒤㒥㒦㒧㒨㒩㒪㒫㒬㒭㒮㒯㒰㒱㒲㒳㒴㒵㒶㒷㒸㒹㒺㒻㒼㒽㒾㒿㓀㓁㓂㓃㓄㓅㓆㓇㓈㓉㓊㓋㓌㓍㓎㓏㓐㓑㓒㓓㓔㓕㓖㓗㓘㓙㓚㓛㓜㓝㓞㓟㓠㓡㓢㓣㓤㓥㓦㓧㓨㓩㓪㓫㓬㓭㓮㓯㓰㓱㓲㓳㓴㓵㓶㓷㓸㓹㓺㓻㓼㓽㓾㓿" >>,
        << 13696, "㖀㖁㖂㖃㖄㖅㖆㖇㖈㖉㖊㖋㖌㖍㖎㖏㖐㖑㖒㖓㖔㖕㖖㖗㖘㖙㖚㖛㖜㖝㖞㖟㖠㖡㖢㖣㖤㖥㖦㖧㖨㖩㖪㖫㖬㖭㖮㖯㖰㖱㖲㖳㖴㖵㖶㖷㖸㖹㖺㖻㖼㖽㖾㖿㗀㗁㗂㗃㗄㗅㗆㗇㗈㗉㗊㗋㗌㗍㗎㗏㗐㗑㗒㗓㗔㗕㗖㗗㗘㗙㗚㗛㗜㗝㗞㗟㗠㗡㗢㗣㗤㗥㗦㗧㗨㗩㗪㗫㗬㗭㗮㗯㗰㗱㗲㗳㗴㗵㗶㗷㗸㗹㗺㗻㗼㗽㗾㗿" >>,
        << 13952, "㚀㚁㚂㚃㚄㚅㚆㚇㚈㚉㚊㚋㚌㚍㚎㚏㚐㚑㚒㚓㚔㚕㚖㚗㚘㚙㚚㚛㚜㚝㚞㚟㚠㚡㚢㚣㚤㚥㚦㚧㚨㚩㚪㚫㚬㚭㚮㚯㚰㚱㚲㚳㚴㚵㚶㚷㚸㚹㚺㚻㚼㚽㚾㚿㛀㛁㛂㛃㛄㛅㛆㛇㛈㛉㛊㛋㛌㛍㛎㛏㛐㛑㛒㛓㛔㛕㛖㛗㛘㛙㛚㛛㛜㛝㛞㛟㛠㛡㛢㛣㛤㛥㛦㛧㛨㛩㛪㛫㛬㛭㛮㛯㛰㛱㛲㛳㛴㛵㛶㛷㛸㛹㛺㛻㛼㛽㛾㛿" >>,
        << 14208, "㞀㞁㞂㞃㞄㞅㞆㞇㞈㞉㞊㞋㞌㞍㞎㞏㞐㞑㞒㞓㞔㞕㞖㞗㞘㞙㞚㞛㞜㞝㞞㞟㞠㞡㞢㞣㞤㞥㞦㞧㞨㞩㞪㞫㞬㞭㞮㞯㞰㞱㞲㞳㞴㞵㞶㞷㞸㞹㞺㞻㞼㞽㞾㞿㟀㟁㟂㟃㟄㟅㟆㟇㟈㟉㟊㟋㟌㟍㟎㟏㟐㟑㟒㟓㟔㟕㟖㟗㟘㟙㟚㟛㟜㟝㟞㟟㟠㟡㟢㟣㟤㟥㟦㟧㟨㟩㟪㟫㟬㟭㟮㟯㟰㟱㟲㟳㟴㟵㟶㟷㟸㟹㟺㟻㟼㟽㟾㟿" >>,
        << 14464, "㢀㢁㢂㢃㢄㢅㢆㢇㢈㢉㢊㢋㢌㢍㢎㢏㢐㢑㢒㢓㢔㢕㢖㢗㢘㢙㢚㢛㢜㢝㢞㢟㢠㢡㢢㢣㢤㢥㢦㢧㢨㢩㢪㢫㢬㢭㢮㢯㢰㢱㢲㢳㢴㢵㢶㢷㢸㢹㢺㢻㢼㢽㢾㢿㣀㣁㣂㣃㣄㣅㣆㣇㣈㣉㣊㣋㣌㣍㣎㣏㣐㣑㣒㣓㣔㣕㣖㣗㣘㣙㣚㣛㣜㣝㣞㣟㣠㣡㣢㣣㣤㣥㣦㣧㣨㣩㣪㣫㣬㣭㣮㣯㣰㣱㣲㣳㣴㣵㣶㣷㣸㣹㣺㣻㣼㣽㣾㣿" >>,
        << 14720, "㦀㦁㦂㦃㦄㦅㦆㦇㦈㦉㦊㦋㦌㦍㦎㦏㦐㦑㦒㦓㦔㦕㦖㦗㦘㦙㦚㦛㦜㦝㦞㦟㦠㦡㦢㦣㦤㦥㦦㦧㦨㦩㦪㦫㦬㦭㦮㦯㦰㦱㦲㦳㦴㦵㦶㦷㦸㦹㦺㦻㦼㦽㦾㦿㧀㧁㧂㧃㧄㧅㧆㧇㧈㧉㧊㧋㧌㧍㧎㧏㧐㧑㧒㧓㧔㧕㧖㧗㧘㧙㧚㧛㧜㧝㧞㧟㧠㧡㧢㧣㧤㧥㧦㧧㧨㧩㧪㧫㧬㧭㧮㧯㧰㧱㧲㧳㧴㧵㧶㧷㧸㧹㧺㧻㧼㧽㧾㧿" >>,
        << 14976, "㪀㪁㪂㪃㪄㪅㪆㪇㪈㪉㪊㪋㪌㪍㪎㪏㪐㪑㪒㪓㪔㪕㪖㪗㪘㪙㪚㪛㪜㪝㪞㪟㪠㪡㪢㪣㪤㪥㪦㪧㪨㪩㪪㪫㪬㪭㪮㪯㪰㪱㪲㪳㪴㪵㪶㪷㪸㪹㪺㪻㪼㪽㪾㪿㫀㫁㫂㫃㫄㫅㫆㫇㫈㫉㫊㫋㫌㫍㫎㫏㫐㫑㫒㫓㫔㫕㫖㫗㫘㫙㫚㫛㫜㫝㫞㫟㫠㫡㫢㫣㫤㫥㫦㫧㫨㫩㫪㫫㫬㫭㫮㫯㫰㫱㫲㫳㫴㫵㫶㫷㫸㫹㫺㫻㫼㫽㫾㫿" >>,
        << 15232, "㮀㮁㮂㮃㮄㮅㮆㮇㮈㮉㮊㮋㮌㮍㮎㮏㮐㮑㮒㮓㮔㮕㮖㮗㮘㮙㮚㮛㮜㮝㮞㮟㮠㮡㮢㮣㮤㮥㮦㮧㮨㮩㮪㮫㮬㮭㮮㮯㮰㮱㮲㮳㮴㮵㮶㮷㮸㮹㮺㮻㮼㮽㮾㮿㯀㯁㯂㯃㯄㯅㯆㯇㯈㯉㯊㯋㯌㯍㯎㯏㯐㯑㯒㯓㯔㯕㯖㯗㯘㯙㯚㯛㯜㯝㯞㯟㯠㯡㯢㯣㯤㯥㯦㯧㯨㯩㯪㯫㯬㯭㯮㯯㯰㯱㯲㯳㯴㯵㯶㯷㯸㯹㯺㯻㯼㯽㯾㯿" >>,
        << 15488, "㲀㲁㲂㲃㲄㲅㲆㲇㲈㲉㲊㲋㲌㲍㲎㲏㲐㲑㲒㲓㲔㲕㲖㲗㲘㲙㲚㲛㲜㲝㲞㲟㲠㲡㲢㲣㲤㲥㲦㲧㲨㲩㲪㲫㲬㲭㲮㲯㲰㲱㲲㲳㲴㲵㲶㲷㲸㲹㲺㲻㲼㲽㲾㲿㳀㳁㳂㳃㳄㳅㳆㳇㳈㳉㳊㳋㳌㳍㳎㳏㳐㳑㳒㳓㳔㳕㳖㳗㳘㳙㳚㳛㳜㳝㳞㳟㳠㳡㳢㳣㳤㳥㳦㳧㳨㳩㳪㳫㳬㳭㳮㳯㳰㳱㳲㳳㳴㳵㳶㳷㳸㳹㳺㳻㳼㳽㳾㳿" >>,
        << 15744, "㶀㶁㶂㶃㶄㶅㶆㶇㶈㶉㶊㶋㶌㶍㶎㶏㶐㶑㶒㶓㶔㶕㶖㶗㶘㶙㶚㶛㶜㶝㶞㶟㶠㶡㶢㶣㶤㶥㶦㶧㶨㶩㶪㶫㶬㶭㶮㶯㶰㶱㶲㶳㶴㶵㶶㶷㶸㶹㶺㶻㶼㶽㶾㶿㷀㷁㷂㷃㷄㷅㷆㷇㷈㷉㷊㷋㷌㷍㷎㷏㷐㷑㷒㷓㷔㷕㷖㷗㷘㷙㷚㷛㷜㷝㷞㷟㷠㷡㷢㷣㷤㷥㷦㷧㷨㷩㷪㷫㷬㷭㷮㷯㷰㷱㷲㷳㷴㷵㷶㷷㷸㷹㷺㷻㷼㷽㷾㷿" >>,
        << 16000, "㺀㺁㺂㺃㺄㺅㺆㺇㺈㺉㺊㺋㺌㺍㺎㺏㺐㺑㺒㺓㺔㺕㺖㺗㺘㺙㺚㺛㺜㺝㺞㺟㺠㺡㺢㺣㺤㺥㺦㺧㺨㺩㺪㺫㺬㺭㺮㺯㺰㺱㺲㺳㺴㺵㺶㺷㺸㺹㺺㺻㺼㺽㺾㺿㻀㻁㻂㻃㻄㻅㻆㻇㻈㻉㻊㻋㻌㻍㻎㻏㻐㻑㻒㻓㻔㻕㻖㻗㻘㻙㻚㻛㻜㻝㻞㻟㻠㻡㻢㻣㻤㻥㻦㻧㻨㻩㻪㻫㻬㻭㻮㻯㻰㻱㻲㻳㻴㻵㻶㻷㻸㻹㻺㻻㻼㻽㻾㻿" >>,
        << 16256, "㾀㾁㾂㾃㾄㾅㾆㾇㾈㾉㾊㾋㾌㾍㾎㾏㾐㾑㾒㾓㾔㾕㾖㾗㾘㾙㾚㾛㾜㾝㾞㾟㾠㾡㾢㾣㾤㾥㾦㾧㾨㾩㾪㾫㾬㾭㾮㾯㾰㾱㾲㾳㾴㾵㾶㾷㾸㾹㾺㾻㾼㾽㾾㾿㿀㿁㿂㿃㿄㿅㿆㿇㿈㿉㿊㿋㿌㿍㿎㿏㿐㿑㿒㿓㿔㿕㿖㿗㿘㿙㿚㿛㿜㿝㿞㿟㿠㿡㿢㿣㿤㿥㿦㿧㿨㿩㿪㿫㿬㿭㿮㿯㿰㿱㿲㿳㿴㿵㿶㿷㿸㿹㿺㿻㿼㿽㿾㿿" >>,
        << 16512, "䂀䂁䂂䂃䂄䂅䂆䂇䂈䂉䂊䂋䂌䂍䂎䂏䂐䂑䂒䂓䂔䂕䂖䂗䂘䂙䂚䂛䂜䂝䂞䂟䂠䂡䂢䂣䂤䂥䂦䂧䂨䂩䂪䂫䂬䂭䂮䂯䂰䂱䂲䂳䂴䂵䂶䂷䂸䂹䂺䂻䂼䂽䂾䂿䃀䃁䃂䃃䃄䃅䃆䃇䃈䃉䃊䃋䃌䃍䃎䃏䃐䃑䃒䃓䃔䃕䃖䃗䃘䃙䃚䃛䃜䃝䃞䃟䃠䃡䃢䃣䃤䃥䃦䃧䃨䃩䃪䃫䃬䃭䃮䃯䃰䃱䃲䃳䃴䃵䃶䃷䃸䃹䃺䃻䃼䃽䃾䃿" >>,
        << 16768, "䆀䆁䆂䆃䆄䆅䆆䆇䆈䆉䆊䆋䆌䆍䆎䆏䆐䆑䆒䆓䆔䆕䆖䆗䆘䆙䆚䆛䆜䆝䆞䆟䆠䆡䆢䆣䆤䆥䆦䆧䆨䆩䆪䆫䆬䆭䆮䆯䆰䆱䆲䆳䆴䆵䆶䆷䆸䆹䆺䆻䆼䆽䆾䆿䇀䇁䇂䇃䇄䇅䇆䇇䇈䇉䇊䇋䇌䇍䇎䇏䇐䇑䇒䇓䇔䇕䇖䇗䇘䇙䇚䇛䇜䇝䇞䇟䇠䇡䇢䇣䇤䇥䇦䇧䇨䇩䇪䇫䇬䇭䇮䇯䇰䇱䇲䇳䇴䇵䇶䇷䇸䇹䇺䇻䇼䇽䇾䇿" >>,
        << 17024, "䊀䊁䊂䊃䊄䊅䊆䊇䊈䊉䊊䊋䊌䊍䊎䊏䊐䊑䊒䊓䊔䊕䊖䊗䊘䊙䊚䊛䊜䊝䊞䊟䊠䊡䊢䊣䊤䊥䊦䊧䊨䊩䊪䊫䊬䊭䊮䊯䊰䊱䊲䊳䊴䊵䊶䊷䊸䊹䊺䊻䊼䊽䊾䊿䋀䋁䋂䋃䋄䋅䋆䋇䋈䋉䋊䋋䋌䋍䋎䋏䋐䋑䋒䋓䋔䋕䋖䋗䋘䋙䋚䋛䋜䋝䋞䋟䋠䋡䋢䋣䋤䋥䋦䋧䋨䋩䋪䋫䋬䋭䋮䋯䋰䋱䋲䋳䋴䋵䋶䋷䋸䋹䋺䋻䋼䋽䋾䋿" >>,
        << 17280, "䎀䎁䎂䎃䎄䎅䎆䎇䎈䎉䎊䎋䎌䎍䎎䎏䎐䎑䎒䎓䎔䎕䎖䎗䎘䎙䎚䎛䎜䎝䎞䎟䎠䎡䎢䎣䎤䎥䎦䎧䎨䎩䎪䎫䎬䎭䎮䎯䎰䎱䎲䎳䎴䎵䎶䎷䎸䎹䎺䎻䎼䎽䎾䎿䏀䏁䏂䏃䏄䏅䏆䏇䏈䏉䏊䏋䏌䏍䏎䏏䏐䏑䏒䏓䏔䏕䏖䏗䏘䏙䏚䏛䏜䏝䏞䏟䏠䏡䏢䏣䏤䏥䏦䏧䏨䏩䏪䏫䏬䏭䏮䏯䏰䏱䏲䏳䏴䏵䏶䏷䏸䏹䏺䏻䏼䏽䏾䏿" >>,
        << 17536, "䒀䒁䒂䒃䒄䒅䒆䒇䒈䒉䒊䒋䒌䒍䒎䒏䒐䒑䒒䒓䒔䒕䒖䒗䒘䒙䒚䒛䒜䒝䒞䒟䒠䒡䒢䒣䒤䒥䒦䒧䒨䒩䒪䒫䒬䒭䒮䒯䒰䒱䒲䒳䒴䒵䒶䒷䒸䒹䒺䒻䒼䒽䒾䒿䓀䓁䓂䓃䓄䓅䓆䓇䓈䓉䓊䓋䓌䓍䓎䓏䓐䓑䓒䓓䓔䓕䓖䓗䓘䓙䓚䓛䓜䓝䓞䓟䓠䓡䓢䓣䓤䓥䓦䓧䓨䓩䓪䓫䓬䓭䓮䓯䓰䓱䓲䓳䓴䓵䓶䓷䓸䓹䓺䓻䓼䓽䓾䓿" >>,
        << 17792, "䖀䖁䖂䖃䖄䖅䖆䖇䖈䖉䖊䖋䖌䖍䖎䖏䖐䖑䖒䖓䖔䖕䖖䖗䖘䖙䖚䖛䖜䖝䖞䖟䖠䖡䖢䖣䖤䖥䖦䖧䖨䖩䖪䖫䖬䖭䖮䖯䖰䖱䖲䖳䖴䖵䖶䖷䖸䖹䖺䖻䖼䖽䖾䖿䗀䗁䗂䗃䗄䗅䗆䗇䗈䗉䗊䗋䗌䗍䗎䗏䗐䗑䗒䗓䗔䗕䗖䗗䗘䗙䗚䗛䗜䗝䗞䗟䗠䗡䗢䗣䗤䗥䗦䗧䗨䗩䗪䗫䗬䗭䗮䗯䗰䗱䗲䗳䗴䗵䗶䗷䗸䗹䗺䗻䗼䗽䗾䗿" >>,
        << 18048, "䚀䚁䚂䚃䚄䚅䚆䚇䚈䚉䚊䚋䚌䚍䚎䚏䚐䚑䚒䚓䚔䚕䚖䚗䚘䚙䚚䚛䚜䚝䚞䚟䚠䚡䚢䚣䚤䚥䚦䚧䚨䚩䚪䚫䚬䚭䚮䚯䚰䚱䚲䚳䚴䚵䚶䚷䚸䚹䚺䚻䚼䚽䚾䚿䛀䛁䛂䛃䛄䛅䛆䛇䛈䛉䛊䛋䛌䛍䛎䛏䛐䛑䛒䛓䛔䛕䛖䛗䛘䛙䛚䛛䛜䛝䛞䛟䛠䛡䛢䛣䛤䛥䛦䛧䛨䛩䛪䛫䛬䛭䛮䛯䛰䛱䛲䛳䛴䛵䛶䛷䛸䛹䛺䛻䛼䛽䛾䛿" >>,
        << 18304, "䞀䞁䞂䞃䞄䞅䞆䞇䞈䞉䞊䞋䞌䞍䞎䞏䞐䞑䞒䞓䞔䞕䞖䞗䞘䞙䞚䞛䞜䞝䞞䞟䞠䞡䞢䞣䞤䞥䞦䞧䞨䞩䞪䞫䞬䞭䞮䞯䞰䞱䞲䞳䞴䞵䞶䞷䞸䞹䞺䞻䞼䞽䞾䞿䟀䟁䟂䟃䟄䟅䟆䟇䟈䟉䟊䟋䟌䟍䟎䟏䟐䟑䟒䟓䟔䟕䟖䟗䟘䟙䟚䟛䟜䟝䟞䟟䟠䟡䟢䟣䟤䟥䟦䟧䟨䟩䟪䟫䟬䟭䟮䟯䟰䟱䟲䟳䟴䟵䟶䟷䟸䟹䟺䟻䟼䟽䟾䟿" >>,
        << 18560, "䢀䢁䢂䢃䢄䢅䢆䢇䢈䢉䢊䢋䢌䢍䢎䢏䢐䢑䢒䢓䢔䢕䢖䢗䢘䢙䢚䢛䢜䢝䢞䢟䢠䢡䢢䢣䢤䢥䢦䢧䢨䢩䢪䢫䢬䢭䢮䢯䢰䢱䢲䢳䢴䢵䢶䢷䢸䢹䢺䢻䢼䢽䢾䢿䣀䣁䣂䣃䣄䣅䣆䣇䣈䣉䣊䣋䣌䣍䣎䣏䣐䣑䣒䣓䣔䣕䣖䣗䣘䣙䣚䣛䣜䣝䣞䣟䣠䣡䣢䣣䣤䣥䣦䣧䣨䣩䣪䣫䣬䣭䣮䣯䣰䣱䣲䣳䣴䣵䣶䣷䣸䣹䣺䣻䣼䣽䣾䣿" >>,
        << 18816, "䦀䦁䦂䦃䦄䦅䦆䦇䦈䦉䦊䦋䦌䦍䦎䦏䦐䦑䦒䦓䦔䦕䦖䦗䦘䦙䦚䦛䦜䦝䦞䦟䦠䦡䦢䦣䦤䦥䦦䦧䦨䦩䦪䦫䦬䦭䦮䦯䦰䦱䦲䦳䦴䦵䦶䦷䦸䦹䦺䦻䦼䦽䦾䦿䧀䧁䧂䧃䧄䧅䧆䧇䧈䧉䧊䧋䧌䧍䧎䧏䧐䧑䧒䧓䧔䧕䧖䧗䧘䧙䧚䧛䧜䧝䧞䧟䧠䧡䧢䧣䧤䧥䧦䧧䧨䧩䧪䧫䧬䧭䧮䧯䧰䧱䧲䧳䧴䧵䧶䧷䧸䧹䧺䧻䧼䧽䧾䧿" >>,
        << 19072, "䪀䪁䪂䪃䪄䪅䪆䪇䪈䪉䪊䪋䪌䪍䪎䪏䪐䪑䪒䪓䪔䪕䪖䪗䪘䪙䪚䪛䪜䪝䪞䪟䪠䪡䪢䪣䪤䪥䪦䪧䪨䪩䪪䪫䪬䪭䪮䪯䪰䪱䪲䪳䪴䪵䪶䪷䪸䪹䪺䪻䪼䪽䪾䪿䫀䫁䫂䫃䫄䫅䫆䫇䫈䫉䫊䫋䫌䫍䫎䫏䫐䫑䫒䫓䫔䫕䫖䫗䫘䫙䫚䫛䫜䫝䫞䫟䫠䫡䫢䫣䫤䫥䫦䫧䫨䫩䫪䫫䫬䫭䫮䫯䫰䫱䫲䫳䫴䫵䫶䫷䫸䫹䫺䫻䫼䫽䫾䫿" >>,
        << 19328, "䮀䮁䮂䮃䮄䮅䮆䮇䮈䮉䮊䮋䮌䮍䮎䮏䮐䮑䮒䮓䮔䮕䮖䮗䮘䮙䮚䮛䮜䮝䮞䮟䮠䮡䮢䮣䮤䮥䮦䮧䮨䮩䮪䮫䮬䮭䮮䮯䮰䮱䮲䮳䮴䮵䮶䮷䮸䮹䮺䮻䮼䮽䮾䮿䯀䯁䯂䯃䯄䯅䯆䯇䯈䯉䯊䯋䯌䯍䯎䯏䯐䯑䯒䯓䯔䯕䯖䯗䯘䯙䯚䯛䯜䯝䯞䯟䯠䯡䯢䯣䯤䯥䯦䯧䯨䯩䯪䯫䯬䯭䯮䯯䯰䯱䯲䯳䯴䯵䯶䯷䯸䯹䯺䯻䯼䯽䯾䯿" >>,
        << 19584, "䲀䲁䲂䲃䲄䲅䲆䲇䲈䲉䲊䲋䲌䲍䲎䲏䲐䲑䲒䲓䲔䲕䲖䲗䲘䲙䲚䲛䲜䲝䲞䲟䲠䲡䲢䲣䲤䲥䲦䲧䲨䲩䲪䲫䲬䲭䲮䲯䲰䲱䲲䲳䲴䲵䲶䲷䲸䲹䲺䲻䲼䲽䲾䲿䳀䳁䳂䳃䳄䳅䳆䳇䳈䳉䳊䳋䳌䳍䳎䳏䳐䳑䳒䳓䳔䳕䳖䳗䳘䳙䳚䳛䳜䳝䳞䳟䳠䳡䳢䳣䳤䳥䳦䳧䳨䳩䳪䳫䳬䳭䳮䳯䳰䳱䳲䳳䳴䳵䳶䳷䳸䳹䳺䳻䳼䳽䳾䳿" >>,
        << 19840, "䶀䶁䶂䶃䶄䶅䶆䶇䶈䶉䶊䶋䶌䶍䶎䶏䶐䶑䶒䶓䶔䶕䶖䶗䶘䶙䶚䶛䶜䶝䶞䶟䶠䶡䶢䶣䶤䶥䶦䶧䶨䶩䶪䶫䶬䶭䶮䶯䶰䶱䶲䶳䶴䶵䶶䶷䶸䶹䶺䶻䶼䶽䶾䶿䷀䷁䷂䷃䷄䷅䷆䷇䷈䷉䷊䷋䷌䷍䷎䷏䷐䷑䷒䷓䷔䷕䷖䷗䷘䷙䷚䷛䷜䷝䷞䷟䷠䷡䷢䷣䷤䷥䷦䷧䷨䷩䷪䷫䷬䷭䷮䷯䷰䷱䷲䷳䷴䷵䷶䷷䷸䷹䷺䷻䷼䷽䷾䷿" >>,
        << 20096, "亀亁亂亃亄亅了亇予争亊事二亍于亏亐云互亓五井亖亗亘亙亚些亜亝亞亟亠亡亢亣交亥亦产亨亩亪享京亭亮亯亰亱亲亳亴亵亶亷亸亹人亻亼亽亾亿什仁仂仃仄仅仆仇仈仉今介仌仍从仏仐仑仒仓仔仕他仗付仙仚仛仜仝仞仟仠仡仢代令以仦仧仨仩仪仫们仭仮仯仰仱仲仳仴仵件价仸仹仺任仼份仾仿" >>,
        << 20352, "侀侁侂侃侄侅來侇侈侉侊例侌侍侎侏侐侑侒侓侔侕侖侗侘侙侚供侜依侞侟侠価侢侣侤侥侦侧侨侩侪侫侬侭侮侯侰侱侲侳侴侵侶侷侸侹侺侻侼侽侾便俀俁係促俄俅俆俇俈俉俊俋俌俍俎俏俐俑俒俓俔俕俖俗俘俙俚俛俜保俞俟俠信俢俣俤俥俦俧俨俩俪俫俬俭修俯俰俱俲俳俴俵俶俷俸俹俺俻俼俽俾俿" >>,
        << 20608, "傀傁傂傃傄傅傆傇傈傉傊傋傌傍傎傏傐傑傒傓傔傕傖傗傘備傚傛傜傝傞傟傠傡傢傣傤傥傦傧储傩傪傫催傭傮傯傰傱傲傳傴債傶傷傸傹傺傻傼傽傾傿僀僁僂僃僄僅僆僇僈僉僊僋僌働僎像僐僑僒僓僔僕僖僗僘僙僚僛僜僝僞僟僠僡僢僣僤僥僦僧僨僩僪僫僬僭僮僯僰僱僲僳僴僵僶僷僸價僺僻僼僽僾僿" >>,
        << 20864, "冀冁冂冃冄内円冇冈冉冊冋册再冎冏冐冑冒冓冔冕冖冗冘写冚军农冝冞冟冠冡冢冣冤冥冦冧冨冩冪冫冬冭冮冯冰冱冲决冴况冶冷冸冹冺冻冼冽冾冿净凁凂凃凄凅准凇凈凉凊凋凌凍凎减凐凑凒凓凔凕凖凗凘凙凚凛凜凝凞凟几凡凢凣凤凥処凧凨凩凪凫凬凭凮凯凰凱凲凳凴凵凶凷凸凹出击凼函凾凿" >>,
        << 21120, "劀劁劂劃劄劅劆劇劈劉劊劋劌劍劎劏劐劑劒劓劔劕劖劗劘劙劚力劜劝办功加务劢劣劤劥劦劧动助努劫劬劭劮劯劰励劲劳労劵劶劷劸効劺劻劼劽劾势勀勁勂勃勄勅勆勇勈勉勊勋勌勍勎勏勐勑勒勓勔動勖勗勘務勚勛勜勝勞募勠勡勢勣勤勥勦勧勨勩勪勫勬勭勮勯勰勱勲勳勴勵勶勷勸勹勺勻勼勽勾勿" >>,
        << 21376, "厀厁厂厃厄厅历厇厈厉厊压厌厍厎厏厐厑厒厓厔厕厖厗厘厙厚厛厜厝厞原厠厡厢厣厤厥厦厧厨厩厪厫厬厭厮厯厰厱厲厳厴厵厶厷厸厹厺去厼厽厾县叀叁参參叄叅叆叇又叉及友双反収叏叐发叒叓叔叕取受变叙叚叛叜叝叞叟叠叡叢口古句另叧叨叩只叫召叭叮可台叱史右叴叵叶号司叹叺叻叼叽叾叿" >>,
        << 21632, "咀咁咂咃咄咅咆咇咈咉咊咋和咍咎咏咐咑咒咓咔咕咖咗咘咙咚咛咜咝咞咟咠咡咢咣咤咥咦咧咨咩咪咫咬咭咮咯咰咱咲咳咴咵咶咷咸咹咺咻咼咽咾咿哀品哂哃哄哅哆哇哈哉哊哋哌响哎哏哐哑哒哓哔哕哖哗哘哙哚哛哜哝哞哟哠員哢哣哤哥哦哧哨哩哪哫哬哭哮哯哰哱哲哳哴哵哶哷哸哹哺哻哼哽哾哿" >>,
        << 21888, "喀喁喂喃善喅喆喇喈喉喊喋喌喍喎喏喐喑喒喓喔喕喖喗喘喙喚喛喜喝喞喟喠喡喢喣喤喥喦喧喨喩喪喫喬喭單喯喰喱喲喳喴喵営喷喸喹喺喻喼喽喾喿嗀嗁嗂嗃嗄嗅嗆嗇嗈嗉嗊嗋嗌嗍嗎嗏嗐嗑嗒嗓嗔嗕嗖嗗嗘嗙嗚嗛嗜嗝嗞嗟嗠嗡嗢嗣嗤嗥嗦嗧嗨嗩嗪嗫嗬嗭嗮嗯嗰嗱嗲嗳嗴嗵嗶嗷嗸嗹嗺嗻嗼嗽嗾嗿" >>,
        << 22144, "嚀嚁嚂嚃嚄嚅嚆嚇嚈嚉嚊嚋嚌嚍嚎嚏嚐嚑嚒嚓嚔嚕嚖嚗嚘嚙嚚嚛嚜嚝嚞嚟嚠嚡嚢嚣嚤嚥嚦嚧嚨嚩嚪嚫嚬嚭嚮嚯嚰嚱嚲嚳嚴嚵嚶嚷嚸嚹嚺嚻嚼嚽嚾嚿囀囁囂囃囄囅囆囇囈囉囊囋囌囍囎囏囐囑囒囓囔囕囖囗囘囙囚四囜囝回囟因囡团団囤囥囦囧囨囩囪囫囬园囮囯困囱囲図围囵囶囷囸囹固囻囼国图囿" >>,
        << 22400, "垀垁垂垃垄垅垆垇垈垉垊型垌垍垎垏垐垑垒垓垔垕垖垗垘垙垚垛垜垝垞垟垠垡垢垣垤垥垦垧垨垩垪垫垬垭垮垯垰垱垲垳垴垵垶垷垸垹垺垻垼垽垾垿埀埁埂埃埄埅埆埇埈埉埊埋埌埍城埏埐埑埒埓埔埕埖埗埘埙埚埛埜埝埞域埠埡埢埣埤埥埦埧埨埩埪埫埬埭埮埯埰埱埲埳埴埵埶執埸培基埻埼埽埾埿" >>,
        << 22656, "墀墁墂境墄墅墆墇墈墉墊墋墌墍墎墏墐墑墒墓墔墕墖増墘墙墚墛墜墝增墟墠墡墢墣墤墥墦墧墨墩墪墫墬墭墮墯墰墱墲墳墴墵墶墷墸墹墺墻墼墽墾墿壀壁壂壃壄壅壆壇壈壉壊壋壌壍壎壏壐壑壒壓壔壕壖壗壘壙壚壛壜壝壞壟壠壡壢壣壤壥壦壧壨壩壪士壬壭壮壯声壱売壳壴壵壶壷壸壹壺壻壼壽壾壿" >>,
        << 22912, "妀妁如妃妄妅妆妇妈妉妊妋妌妍妎妏妐妑妒妓妔妕妖妗妘妙妚妛妜妝妞妟妠妡妢妣妤妥妦妧妨妩妪妫妬妭妮妯妰妱妲妳妴妵妶妷妸妹妺妻妼妽妾妿姀姁姂姃姄姅姆姇姈姉姊始姌姍姎姏姐姑姒姓委姕姖姗姘姙姚姛姜姝姞姟姠姡姢姣姤姥姦姧姨姩姪姫姬姭姮姯姰姱姲姳姴姵姶姷姸姹姺姻姼姽姾姿" >>,
        << 23168, "媀媁媂媃媄媅媆媇媈媉媊媋媌媍媎媏媐媑媒媓媔媕媖媗媘媙媚媛媜媝媞媟媠媡媢媣媤媥媦媧媨媩媪媫媬媭媮媯媰媱媲媳媴媵媶媷媸媹媺媻媼媽媾媿嫀嫁嫂嫃嫄嫅嫆嫇嫈嫉嫊嫋嫌嫍嫎嫏嫐嫑嫒嫓嫔嫕嫖嫗嫘嫙嫚嫛嫜嫝嫞嫟嫠嫡嫢嫣嫤嫥嫦嫧嫨嫩嫪嫫嫬嫭嫮嫯嫰嫱嫲嫳嫴嫵嫶嫷嫸嫹嫺嫻嫼嫽嫾嫿" >>,
        << 23424, "宀宁宂它宄宅宆宇守安宊宋完宍宎宏宐宑宒宓宔宕宖宗官宙定宛宜宝实実宠审客宣室宥宦宧宨宩宪宫宬宭宮宯宰宱宲害宴宵家宷宸容宺宻宼宽宾宿寀寁寂寃寄寅密寇寈寉寊寋富寍寎寏寐寑寒寓寔寕寖寗寘寙寚寛寜寝寞察寠寡寢寣寤寥實寧寨審寪寫寬寭寮寯寰寱寲寳寴寵寶寷寸对寺寻导寽対寿" >>,
        << 23680, "岀岁岂岃岄岅岆岇岈岉岊岋岌岍岎岏岐岑岒岓岔岕岖岗岘岙岚岛岜岝岞岟岠岡岢岣岤岥岦岧岨岩岪岫岬岭岮岯岰岱岲岳岴岵岶岷岸岹岺岻岼岽岾岿峀峁峂峃峄峅峆峇峈峉峊峋峌峍峎峏峐峑峒峓峔峕峖峗峘峙峚峛峜峝峞峟峠峡峢峣峤峥峦峧峨峩峪峫峬峭峮峯峰峱峲峳峴峵島峷峸峹峺峻峼峽峾峿" >>,
        << 23936, "嶀嶁嶂嶃嶄嶅嶆嶇嶈嶉嶊嶋嶌嶍嶎嶏嶐嶑嶒嶓嶔嶕嶖嶗嶘嶙嶚嶛嶜嶝嶞嶟嶠嶡嶢嶣嶤嶥嶦嶧嶨嶩嶪嶫嶬嶭嶮嶯嶰嶱嶲嶳嶴嶵嶶嶷嶸嶹嶺嶻嶼嶽嶾嶿巀巁巂巃巄巅巆巇巈巉巊巋巌巍巎巏巐巑巒巓巔巕巖巗巘巙巚巛巜川州巟巠巡巢巣巤工左巧巨巩巪巫巬巭差巯巰己已巳巴巵巶巷巸巹巺巻巼巽巾巿" >>,
        << 24192, "庀庁庂広庄庅庆庇庈庉床庋庌庍庎序庐庑庒库应底庖店庘庙庚庛府庝庞废庠庡庢庣庤庥度座庨庩庪庫庬庭庮庯庰庱庲庳庴庵庶康庸庹庺庻庼庽庾庿廀廁廂廃廄廅廆廇廈廉廊廋廌廍廎廏廐廑廒廓廔廕廖廗廘廙廚廛廜廝廞廟廠廡廢廣廤廥廦廧廨廩廪廫廬廭廮廯廰廱廲廳廴廵延廷廸廹建廻廼廽廾廿" >>,
        << 24448, "往征徂徃径待徆徇很徉徊律後徍徎徏徐徑徒従徔徕徖得徘徙徚徛徜徝從徟徠御徢徣徤徥徦徧徨復循徫徬徭微徯徰徱徲徳徴徵徶德徸徹徺徻徼徽徾徿忀忁忂心忄必忆忇忈忉忊忋忌忍忎忏忐忑忒忓忔忕忖志忘忙忚忛応忝忞忟忠忡忢忣忤忥忦忧忨忩忪快忬忭忮忯忰忱忲忳忴念忶忷忸忹忺忻忼忽忾忿" >>,
        << 24704, "悀悁悂悃悄悅悆悇悈悉悊悋悌悍悎悏悐悑悒悓悔悕悖悗悘悙悚悛悜悝悞悟悠悡悢患悤悥悦悧您悩悪悫悬悭悮悯悰悱悲悳悴悵悶悷悸悹悺悻悼悽悾悿惀惁惂惃惄情惆惇惈惉惊惋惌惍惎惏惐惑惒惓惔惕惖惗惘惙惚惛惜惝惞惟惠惡惢惣惤惥惦惧惨惩惪惫惬惭惮惯惰惱惲想惴惵惶惷惸惹惺惻惼惽惾惿" >>,
        << 24960, "憀憁憂憃憄憅憆憇憈憉憊憋憌憍憎憏憐憑憒憓憔憕憖憗憘憙憚憛憜憝憞憟憠憡憢憣憤憥憦憧憨憩憪憫憬憭憮憯憰憱憲憳憴憵憶憷憸憹憺憻憼憽憾憿懀懁懂懃懄懅懆懇懈應懊懋懌懍懎懏懐懑懒懓懔懕懖懗懘懙懚懛懜懝懞懟懠懡懢懣懤懥懦懧懨懩懪懫懬懭懮懯懰懱懲懳懴懵懶懷懸懹懺懻懼懽懾懿" >>,
        << 25216, "技抁抂抃抄抅抆抇抈抉把抋抌抍抎抏抐抑抒抓抔投抖抗折抙抚抛抜抝択抟抠抡抢抣护报抦抧抨抩抪披抬抭抮抯抰抱抲抳抴抵抶抷抸抹抺抻押抽抾抿拀拁拂拃拄担拆拇拈拉拊拋拌拍拎拏拐拑拒拓拔拕拖拗拘拙拚招拜拝拞拟拠拡拢拣拤拥拦拧拨择拪拫括拭拮拯拰拱拲拳拴拵拶拷拸拹拺拻拼拽拾拿" >>,
        << 25472, "掀掁掂掃掄掅掆掇授掉掊掋掌掍掎掏掐掑排掓掔掕掖掗掘掙掚掛掜掝掞掟掠採探掣掤接掦控推掩措掫掬掭掮掯掰掱掲掳掴掵掶掷掸掹掺掻掼掽掾掿揀揁揂揃揄揅揆揇揈揉揊揋揌揍揎描提揑插揓揔揕揖揗揘揙揚換揜揝揞揟揠握揢揣揤揥揦揧揨揩揪揫揬揭揮揯揰揱揲揳援揵揶揷揸揹揺揻揼揽揾揿" >>,
        << 25728, "撀撁撂撃撄撅撆撇撈撉撊撋撌撍撎撏撐撑撒撓撔撕撖撗撘撙撚撛撜撝撞撟撠撡撢撣撤撥撦撧撨撩撪撫撬播撮撯撰撱撲撳撴撵撶撷撸撹撺撻撼撽撾撿擀擁擂擃擄擅擆擇擈擉擊擋擌操擎擏擐擑擒擓擔擕擖擗擘擙據擛擜擝擞擟擠擡擢擣擤擥擦擧擨擩擪擫擬擭擮擯擰擱擲擳擴擵擶擷擸擹擺擻擼擽擾擿" >>,
        << 25984, "斀斁斂斃斄斅斆文斈斉斊斋斌斍斎斏斐斑斒斓斔斕斖斗斘料斚斛斜斝斞斟斠斡斢斣斤斥斦斧斨斩斪斫斬断斮斯新斱斲斳斴斵斶斷斸方斺斻於施斾斿旀旁旂旃旄旅旆旇旈旉旊旋旌旍旎族旐旑旒旓旔旕旖旗旘旙旚旛旜旝旞旟无旡既旣旤日旦旧旨早旪旫旬旭旮旯旰旱旲旳旴旵时旷旸旹旺旻旼旽旾旿" >>,
        << 26240, "暀暁暂暃暄暅暆暇暈暉暊暋暌暍暎暏暐暑暒暓暔暕暖暗暘暙暚暛暜暝暞暟暠暡暢暣暤暥暦暧暨暩暪暫暬暭暮暯暰暱暲暳暴暵暶暷暸暹暺暻暼暽暾暿曀曁曂曃曄曅曆曇曈曉曊曋曌曍曎曏曐曑曒曓曔曕曖曗曘曙曚曛曜曝曞曟曠曡曢曣曤曥曦曧曨曩曪曫曬曭曮曯曰曱曲曳更曵曶曷書曹曺曻曼曽曾替" >>,
        << 26496, "枀极枂枃构枅枆枇枈枉枊枋枌枍枎枏析枑枒枓枔枕枖林枘枙枚枛果枝枞枟枠枡枢枣枤枥枦枧枨枩枪枫枬枭枮枯枰枱枲枳枴枵架枷枸枹枺枻枼枽枾枿柀柁柂柃柄柅柆柇柈柉柊柋柌柍柎柏某柑柒染柔柕柖柗柘柙柚柛柜柝柞柟柠柡柢柣柤查柦柧柨柩柪柫柬柭柮柯柰柱柲柳柴柵柶柷柸柹柺査柼柽柾柿" >>,
        << 26752, "梀梁梂梃梄梅梆梇梈梉梊梋梌梍梎梏梐梑梒梓梔梕梖梗梘梙梚梛梜條梞梟梠梡梢梣梤梥梦梧梨梩梪梫梬梭梮梯械梱梲梳梴梵梶梷梸梹梺梻梼梽梾梿检棁棂棃棄棅棆棇棈棉棊棋棌棍棎棏棐棑棒棓棔棕棖棗棘棙棚棛棜棝棞棟棠棡棢棣棤棥棦棧棨棩棪棫棬棭森棯棰棱棲棳棴棵棶棷棸棹棺棻棼棽棾棿" >>,
        << 27008, "榀榁概榃榄榅榆榇榈榉榊榋榌榍榎榏榐榑榒榓榔榕榖榗榘榙榚榛榜榝榞榟榠榡榢榣榤榥榦榧榨榩榪榫榬榭榮榯榰榱榲榳榴榵榶榷榸榹榺榻榼榽榾榿槀槁槂槃槄槅槆槇槈槉槊構槌槍槎槏槐槑槒槓槔槕槖槗様槙槚槛槜槝槞槟槠槡槢槣槤槥槦槧槨槩槪槫槬槭槮槯槰槱槲槳槴槵槶槷槸槹槺槻槼槽槾槿" >>,
        << 27264, "檀檁檂檃檄檅檆檇檈檉檊檋檌檍檎檏檐檑檒檓檔檕檖檗檘檙檚檛檜檝檞檟檠檡檢檣檤檥檦檧檨檩檪檫檬檭檮檯檰檱檲檳檴檵檶檷檸檹檺檻檼檽檾檿櫀櫁櫂櫃櫄櫅櫆櫇櫈櫉櫊櫋櫌櫍櫎櫏櫐櫑櫒櫓櫔櫕櫖櫗櫘櫙櫚櫛櫜櫝櫞櫟櫠櫡櫢櫣櫤櫥櫦櫧櫨櫩櫪櫫櫬櫭櫮櫯櫰櫱櫲櫳櫴櫵櫶櫷櫸櫹櫺櫻櫼櫽櫾櫿" >>,
        << 27520, "殀殁殂殃殄殅殆殇殈殉殊残殌殍殎殏殐殑殒殓殔殕殖殗殘殙殚殛殜殝殞殟殠殡殢殣殤殥殦殧殨殩殪殫殬殭殮殯殰殱殲殳殴段殶殷殸殹殺殻殼殽殾殿毀毁毂毃毄毅毆毇毈毉毊毋毌母毎每毐毑毒毓比毕毖毗毘毙毚毛毜毝毞毟毠毡毢毣毤毥毦毧毨毩毪毫毬毭毮毯毰毱毲毳毴毵毶毷毸毹毺毻毼毽毾毿" >>,
        << 27776, "沀沁沂沃沄沅沆沇沈沉沊沋沌沍沎沏沐沑沒沓沔沕沖沗沘沙沚沛沜沝沞沟沠没沢沣沤沥沦沧沨沩沪沫沬沭沮沯沰沱沲河沴沵沶沷沸油沺治沼沽沾沿泀況泂泃泄泅泆泇泈泉泊泋泌泍泎泏泐泑泒泓泔法泖泗泘泙泚泛泜泝泞泟泠泡波泣泤泥泦泧注泩泪泫泬泭泮泯泰泱泲泳泴泵泶泷泸泹泺泻泼泽泾泿" >>,
        << 28032, "涀涁涂涃涄涅涆涇消涉涊涋涌涍涎涏涐涑涒涓涔涕涖涗涘涙涚涛涜涝涞涟涠涡涢涣涤涥润涧涨涩涪涫涬涭涮涯涰涱液涳涴涵涶涷涸涹涺涻涼涽涾涿淀淁淂淃淄淅淆淇淈淉淊淋淌淍淎淏淐淑淒淓淔淕淖淗淘淙淚淛淜淝淞淟淠淡淢淣淤淥淦淧淨淩淪淫淬淭淮淯淰深淲淳淴淵淶混淸淹淺添淼淽淾淿" >>,
        << 28288, "満溁溂溃溄溅溆溇溈溉溊溋溌溍溎溏源溑溒溓溔溕準溗溘溙溚溛溜溝溞溟溠溡溢溣溤溥溦溧溨溩溪溫溬溭溮溯溰溱溲溳溴溵溶溷溸溹溺溻溼溽溾溿滀滁滂滃滄滅滆滇滈滉滊滋滌滍滎滏滐滑滒滓滔滕滖滗滘滙滚滛滜滝滞滟滠满滢滣滤滥滦滧滨滩滪滫滬滭滮滯滰滱滲滳滴滵滶滷滸滹滺滻滼滽滾滿" >>,
        << 28544, "澀澁澂澃澄澅澆澇澈澉澊澋澌澍澎澏澐澑澒澓澔澕澖澗澘澙澚澛澜澝澞澟澠澡澢澣澤澥澦澧澨澩澪澫澬澭澮澯澰澱澲澳澴澵澶澷澸澹澺澻澼澽澾澿激濁濂濃濄濅濆濇濈濉濊濋濌濍濎濏濐濑濒濓濔濕濖濗濘濙濚濛濜濝濞濟濠濡濢濣濤濥濦濧濨濩濪濫濬濭濮濯濰濱濲濳濴濵濶濷濸濹濺濻濼濽濾濿" >>,
        << 28800, "炀炁炂炃炄炅炆炇炈炉炊炋炌炍炎炏炐炑炒炓炔炕炖炗炘炙炚炛炜炝炞炟炠炡炢炣炤炥炦炧炨炩炪炫炬炭炮炯炰炱炲炳炴炵炶炷炸点為炻炼炽炾炿烀烁烂烃烄烅烆烇烈烉烊烋烌烍烎烏烐烑烒烓烔烕烖烗烘烙烚烛烜烝烞烟烠烡烢烣烤烥烦烧烨烩烪烫烬热烮烯烰烱烲烳烴烵烶烷烸烹烺烻烼烽烾烿" >>,
        << 29056, "熀熁熂熃熄熅熆熇熈熉熊熋熌熍熎熏熐熑熒熓熔熕熖熗熘熙熚熛熜熝熞熟熠熡熢熣熤熥熦熧熨熩熪熫熬熭熮熯熰熱熲熳熴熵熶熷熸熹熺熻熼熽熾熿燀燁燂燃燄燅燆燇燈燉燊燋燌燍燎燏燐燑燒燓燔燕燖燗燘燙燚燛燜燝燞營燠燡燢燣燤燥燦燧燨燩燪燫燬燭燮燯燰燱燲燳燴燵燶燷燸燹燺燻燼燽燾燿" >>,
        << 29312, "犀犁犂犃犄犅犆犇犈犉犊犋犌犍犎犏犐犑犒犓犔犕犖犗犘犙犚犛犜犝犞犟犠犡犢犣犤犥犦犧犨犩犪犫犬犭犮犯犰犱犲犳犴犵状犷犸犹犺犻犼犽犾犿狀狁狂狃狄狅狆狇狈狉狊狋狌狍狎狏狐狑狒狓狔狕狖狗狘狙狚狛狜狝狞狟狠狡狢狣狤狥狦狧狨狩狪狫独狭狮狯狰狱狲狳狴狵狶狷狸狹狺狻狼狽狾狿" >>,
        << 29568, "玀玁玂玃玄玅玆率玈玉玊王玌玍玎玏玐玑玒玓玔玕玖玗玘玙玚玛玜玝玞玟玠玡玢玣玤玥玦玧玨玩玪玫玬玭玮环现玱玲玳玴玵玶玷玸玹玺玻玼玽玾玿珀珁珂珃珄珅珆珇珈珉珊珋珌珍珎珏珐珑珒珓珔珕珖珗珘珙珚珛珜珝珞珟珠珡珢珣珤珥珦珧珨珩珪珫珬班珮珯珰珱珲珳珴珵珶珷珸珹珺珻珼珽現珿" >>,
        << 29824, "璀璁璂璃璄璅璆璇璈璉璊璋璌璍璎璏璐璑璒璓璔璕璖璗璘璙璚璛璜璝璞璟璠璡璢璣璤璥璦璧璨璩璪璫璬璭璮璯環璱璲璳璴璵璶璷璸璹璺璻璼璽璾璿瓀瓁瓂瓃瓄瓅瓆瓇瓈瓉瓊瓋瓌瓍瓎瓏瓐瓑瓒瓓瓔瓕瓖瓗瓘瓙瓚瓛瓜瓝瓞瓟瓠瓡瓢瓣瓤瓥瓦瓧瓨瓩瓪瓫瓬瓭瓮瓯瓰瓱瓲瓳瓴瓵瓶瓷瓸瓹瓺瓻瓼瓽瓾瓿" >>,
        << 30080, "疀疁疂疃疄疅疆疇疈疉疊疋疌疍疎疏疐疑疒疓疔疕疖疗疘疙疚疛疜疝疞疟疠疡疢疣疤疥疦疧疨疩疪疫疬疭疮疯疰疱疲疳疴疵疶疷疸疹疺疻疼疽疾疿痀痁痂痃痄病痆症痈痉痊痋痌痍痎痏痐痑痒痓痔痕痖痗痘痙痚痛痜痝痞痟痠痡痢痣痤痥痦痧痨痩痪痫痬痭痮痯痰痱痲痳痴痵痶痷痸痹痺痻痼痽痾痿" >>,
        << 30336, "皀皁皂皃的皅皆皇皈皉皊皋皌皍皎皏皐皑皒皓皔皕皖皗皘皙皚皛皜皝皞皟皠皡皢皣皤皥皦皧皨皩皪皫皬皭皮皯皰皱皲皳皴皵皶皷皸皹皺皻皼皽皾皿盀盁盂盃盄盅盆盇盈盉益盋盌盍盎盏盐监盒盓盔盕盖盗盘盙盚盛盜盝盞盟盠盡盢監盤盥盦盧盨盩盪盫盬盭目盯盰盱盲盳直盵盶盷相盹盺盻盼盽盾盿" >>,
        << 30592, "瞀瞁瞂瞃瞄瞅瞆瞇瞈瞉瞊瞋瞌瞍瞎瞏瞐瞑瞒瞓瞔瞕瞖瞗瞘瞙瞚瞛瞜瞝瞞瞟瞠瞡瞢瞣瞤瞥瞦瞧瞨瞩瞪瞫瞬瞭瞮瞯瞰瞱瞲瞳瞴瞵瞶瞷瞸瞹瞺瞻瞼瞽瞾瞿矀矁矂矃矄矅矆矇矈矉矊矋矌矍矎矏矐矑矒矓矔矕矖矗矘矙矚矛矜矝矞矟矠矡矢矣矤知矦矧矨矩矪矫矬短矮矯矰矱矲石矴矵矶矷矸矹矺矻矼矽矾矿" >>,
        << 30848, "碀碁碂碃碄碅碆碇碈碉碊碋碌碍碎碏碐碑碒碓碔碕碖碗碘碙碚碛碜碝碞碟碠碡碢碣碤碥碦碧碨碩碪碫碬碭碮碯碰碱碲碳碴碵碶碷碸碹確碻碼碽碾碿磀磁磂磃磄磅磆磇磈磉磊磋磌磍磎磏磐磑磒磓磔磕磖磗磘磙磚磛磜磝磞磟磠磡磢磣磤磥磦磧磨磩磪磫磬磭磮磯磰磱磲磳磴磵磶磷磸磹磺磻磼磽磾磿" >>,
        << 31104, "禀禁禂禃禄禅禆禇禈禉禊禋禌禍禎福禐禑禒禓禔禕禖禗禘禙禚禛禜禝禞禟禠禡禢禣禤禥禦禧禨禩禪禫禬禭禮禯禰禱禲禳禴禵禶禷禸禹禺离禼禽禾禿秀私秂秃秄秅秆秇秈秉秊秋秌种秎秏秐科秒秓秔秕秖秗秘秙秚秛秜秝秞租秠秡秢秣秤秥秦秧秨秩秪秫秬秭秮积称秱秲秳秴秵秶秷秸秹秺移秼秽秾秿" >>,
        << 31360, "窀突窂窃窄窅窆窇窈窉窊窋窌窍窎窏窐窑窒窓窔窕窖窗窘窙窚窛窜窝窞窟窠窡窢窣窤窥窦窧窨窩窪窫窬窭窮窯窰窱窲窳窴窵窶窷窸窹窺窻窼窽窾窿竀竁竂竃竄竅竆竇竈竉竊立竌竍竎竏竐竑竒竓竔竕竖竗竘站竚竛竜竝竞竟章竡竢竣竤童竦竧竨竩竪竫竬竭竮端竰竱竲竳竴竵競竷竸竹竺竻竼竽竾竿" >>,
        << 31616, "简箁箂箃箄箅箆箇箈箉箊箋箌箍箎箏箐箑箒箓箔箕箖算箘箙箚箛箜箝箞箟箠管箢箣箤箥箦箧箨箩箪箫箬箭箮箯箰箱箲箳箴箵箶箷箸箹箺箻箼箽箾箿節篁篂篃範篅篆篇篈築篊篋篌篍篎篏篐篑篒篓篔篕篖篗篘篙篚篛篜篝篞篟篠篡篢篣篤篥篦篧篨篩篪篫篬篭篮篯篰篱篲篳篴篵篶篷篸篹篺篻篼篽篾篿" >>,
        << 31872, "粀粁粂粃粄粅粆粇粈粉粊粋粌粍粎粏粐粑粒粓粔粕粖粗粘粙粚粛粜粝粞粟粠粡粢粣粤粥粦粧粨粩粪粫粬粭粮粯粰粱粲粳粴粵粶粷粸粹粺粻粼粽精粿糀糁糂糃糄糅糆糇糈糉糊糋糌糍糎糏糐糑糒糓糔糕糖糗糘糙糚糛糜糝糞糟糠糡糢糣糤糥糦糧糨糩糪糫糬糭糮糯糰糱糲糳糴糵糶糷糸糹糺系糼糽糾糿" >>,
        << 32128, "綀綁綂綃綄綅綆綇綈綉綊綋綌綍綎綏綐綑綒經綔綕綖綗綘継続綛綜綝綞綟綠綡綢綣綤綥綦綧綨綩綪綫綬維綮綯綰綱網綳綴綵綶綷綸綹綺綻綼綽綾綿緀緁緂緃緄緅緆緇緈緉緊緋緌緍緎総緐緑緒緓緔緕緖緗緘緙線緛緜緝緞緟締緡緢緣緤緥緦緧編緩緪緫緬緭緮緯緰緱緲緳練緵緶緷緸緹緺緻緼緽緾緿" >>,
        << 32384, "纀纁纂纃纄纅纆纇纈纉纊纋續纍纎纏纐纑纒纓纔纕纖纗纘纙纚纛纜纝纞纟纠纡红纣纤纥约级纨纩纪纫纬纭纮纯纰纱纲纳纴纵纶纷纸纹纺纻纼纽纾线绀绁绂练组绅细织终绉绊绋绌绍绎经绐绑绒结绔绕绖绗绘给绚绛络绝绞统绠绡绢绣绤绥绦继绨绩绪绫绬续绮绯绰绱绲绳维绵绶绷绸绹绺绻综绽绾绿" >>,
        << 32640, "羀羁羂羃羄羅羆羇羈羉羊羋羌羍美羏羐羑羒羓羔羕羖羗羘羙羚羛羜羝羞羟羠羡羢羣群羥羦羧羨義羪羫羬羭羮羯羰羱羲羳羴羵羶羷羸羹羺羻羼羽羾羿翀翁翂翃翄翅翆翇翈翉翊翋翌翍翎翏翐翑習翓翔翕翖翗翘翙翚翛翜翝翞翟翠翡翢翣翤翥翦翧翨翩翪翫翬翭翮翯翰翱翲翳翴翵翶翷翸翹翺翻翼翽翾翿" >>,
        << 32896, "肀肁肂肃肄肅肆肇肈肉肊肋肌肍肎肏肐肑肒肓肔肕肖肗肘肙肚肛肜肝肞肟肠股肢肣肤肥肦肧肨肩肪肫肬肭肮肯肰肱育肳肴肵肶肷肸肹肺肻肼肽肾肿胀胁胂胃胄胅胆胇胈胉胊胋背胍胎胏胐胑胒胓胔胕胖胗胘胙胚胛胜胝胞胟胠胡胢胣胤胥胦胧胨胩胪胫胬胭胮胯胰胱胲胳胴胵胶胷胸胹胺胻胼能胾胿" >>,
        << 33152, "膀膁膂膃膄膅膆膇膈膉膊膋膌膍膎膏膐膑膒膓膔膕膖膗膘膙膚膛膜膝膞膟膠膡膢膣膤膥膦膧膨膩膪膫膬膭膮膯膰膱膲膳膴膵膶膷膸膹膺膻膼膽膾膿臀臁臂臃臄臅臆臇臈臉臊臋臌臍臎臏臐臑臒臓臔臕臖臗臘臙臚臛臜臝臞臟臠臡臢臣臤臥臦臧臨臩自臫臬臭臮臯臰臱臲至致臵臶臷臸臹臺臻臼臽臾臿" >>,
        << 33408, "芀芁节芃芄芅芆芇芈芉芊芋芌芍芎芏芐芑芒芓芔芕芖芗芘芙芚芛芜芝芞芟芠芡芢芣芤芥芦芧芨芩芪芫芬芭芮芯芰花芲芳芴芵芶芷芸芹芺芻芼芽芾芿苀苁苂苃苄苅苆苇苈苉苊苋苌苍苎苏苐苑苒苓苔苕苖苗苘苙苚苛苜苝苞苟苠苡苢苣苤若苦苧苨苩苪苫苬苭苮苯苰英苲苳苴苵苶苷苸苹苺苻苼苽苾苿" >>,
        << 33664, "莀莁莂莃莄莅莆莇莈莉莊莋莌莍莎莏莐莑莒莓莔莕莖莗莘莙莚莛莜莝莞莟莠莡莢莣莤莥莦莧莨莩莪莫莬莭莮莯莰莱莲莳莴莵莶获莸莹莺莻莼莽莾莿菀菁菂菃菄菅菆菇菈菉菊菋菌菍菎菏菐菑菒菓菔菕菖菗菘菙菚菛菜菝菞菟菠菡菢菣菤菥菦菧菨菩菪菫菬菭菮華菰菱菲菳菴菵菶菷菸菹菺菻菼菽菾菿" >>,
        << 33920, "蒀蒁蒂蒃蒄蒅蒆蒇蒈蒉蒊蒋蒌蒍蒎蒏蒐蒑蒒蒓蒔蒕蒖蒗蒘蒙蒚蒛蒜蒝蒞蒟蒠蒡蒢蒣蒤蒥蒦蒧蒨蒩蒪蒫蒬蒭蒮蒯蒰蒱蒲蒳蒴蒵蒶蒷蒸蒹蒺蒻蒼蒽蒾蒿蓀蓁蓂蓃蓄蓅蓆蓇蓈蓉蓊蓋蓌蓍蓎蓏蓐蓑蓒蓓蓔蓕蓖蓗蓘蓙蓚蓛蓜蓝蓞蓟蓠蓡蓢蓣蓤蓥蓦蓧蓨蓩蓪蓫蓬蓭蓮蓯蓰蓱蓲蓳蓴蓵蓶蓷蓸蓹蓺蓻蓼蓽蓾蓿" >>,
        << 34176, "薀薁薂薃薄薅薆薇薈薉薊薋薌薍薎薏薐薑薒薓薔薕薖薗薘薙薚薛薜薝薞薟薠薡薢薣薤薥薦薧薨薩薪薫薬薭薮薯薰薱薲薳薴薵薶薷薸薹薺薻薼薽薾薿藀藁藂藃藄藅藆藇藈藉藊藋藌藍藎藏藐藑藒藓藔藕藖藗藘藙藚藛藜藝藞藟藠藡藢藣藤藥藦藧藨藩藪藫藬藭藮藯藰藱藲藳藴藵藶藷藸藹藺藻藼藽藾藿" >>,
        << 34432, "蚀蚁蚂蚃蚄蚅蚆蚇蚈蚉蚊蚋蚌蚍蚎蚏蚐蚑蚒蚓蚔蚕蚖蚗蚘蚙蚚蚛蚜蚝蚞蚟蚠蚡蚢蚣蚤蚥蚦蚧蚨蚩蚪蚫蚬蚭蚮蚯蚰蚱蚲蚳蚴蚵蚶蚷蚸蚹蚺蚻蚼蚽蚾蚿蛀蛁蛂蛃蛄蛅蛆蛇蛈蛉蛊蛋蛌蛍蛎蛏蛐蛑蛒蛓蛔蛕蛖蛗蛘蛙蛚蛛蛜蛝蛞蛟蛠蛡蛢蛣蛤蛥蛦蛧蛨蛩蛪蛫蛬蛭蛮蛯蛰蛱蛲蛳蛴蛵蛶蛷蛸蛹蛺蛻蛼蛽蛾蛿" >>,
        << 34688, "螀螁螂螃螄螅螆螇螈螉螊螋螌融螎螏螐螑螒螓螔螕螖螗螘螙螚螛螜螝螞螟螠螡螢螣螤螥螦螧螨螩螪螫螬螭螮螯螰螱螲螳螴螵螶螷螸螹螺螻螼螽螾螿蟀蟁蟂蟃蟄蟅蟆蟇蟈蟉蟊蟋蟌蟍蟎蟏蟐蟑蟒蟓蟔蟕蟖蟗蟘蟙蟚蟛蟜蟝蟞蟟蟠蟡蟢蟣蟤蟥蟦蟧蟨蟩蟪蟫蟬蟭蟮蟯蟰蟱蟲蟳蟴蟵蟶蟷蟸蟹蟺蟻蟼蟽蟾蟿" >>,
        << 34944, "袀袁袂袃袄袅袆袇袈袉袊袋袌袍袎袏袐袑袒袓袔袕袖袗袘袙袚袛袜袝袞袟袠袡袢袣袤袥袦袧袨袩袪被袬袭袮袯袰袱袲袳袴袵袶袷袸袹袺袻袼袽袾袿裀裁裂裃裄装裆裇裈裉裊裋裌裍裎裏裐裑裒裓裔裕裖裗裘裙裚裛補裝裞裟裠裡裢裣裤裥裦裧裨裩裪裫裬裭裮裯裰裱裲裳裴裵裶裷裸裹裺裻裼製裾裿" >>,
        << 35200, "覀要覂覃覄覅覆覇覈覉覊見覌覍覎規覐覑覒覓覔覕視覗覘覙覚覛覜覝覞覟覠覡覢覣覤覥覦覧覨覩親覫覬覭覮覯覰覱覲観覴覵覶覷覸覹覺覻覼覽覾覿觀见观觃规觅视觇览觉觊觋觌觍觎觏觐觑角觓觔觕觖觗觘觙觚觛觜觝觞觟觠觡觢解觤觥触觧觨觩觪觫觬觭觮觯觰觱觲觳觴觵觶觷觸觹觺觻觼觽觾觿" >>,
        << 35456, "誀誁誂誃誄誅誆誇誈誉誊誋誌認誎誏誐誑誒誓誔誕誖誗誘誙誚誛誜誝語誟誠誡誢誣誤誥誦誧誨誩說誫説読誮誯誰誱課誳誴誵誶誷誸誹誺誻誼誽誾調諀諁諂諃諄諅諆談諈諉諊請諌諍諎諏諐諑諒諓諔諕論諗諘諙諚諛諜諝諞諟諠諡諢諣諤諥諦諧諨諩諪諫諬諭諮諯諰諱諲諳諴諵諶諷諸諹諺諻諼諽諾諿" >>,
        << 35712, "讀讁讂讃讄讅讆讇讈讉變讋讌讍讎讏讐讑讒讓讔讕讖讗讘讙讚讛讜讝讞讟讠计订讣认讥讦讧讨让讪讫讬训议讯记讱讲讳讴讵讶讷许讹论讻讼讽设访诀证诂诃评诅识诇诈诉诊诋诌词诎诏诐译诒诓诔试诖诗诘诙诚诛诜话诞诟诠诡询诣诤该详诧诨诩诪诫诬语诮误诰诱诲诳说诵诶请诸诹诺读诼诽课诿" >>,
        << 35968, "貀貁貂貃貄貅貆貇貈貉貊貋貌貍貎貏貐貑貒貓貔貕貖貗貘貙貚貛貜貝貞貟負財貢貣貤貥貦貧貨販貪貫責貭貮貯貰貱貲貳貴貵貶買貸貹貺費貼貽貾貿賀賁賂賃賄賅賆資賈賉賊賋賌賍賎賏賐賑賒賓賔賕賖賗賘賙賚賛賜賝賞賟賠賡賢賣賤賥賦賧賨賩質賫賬賭賮賯賰賱賲賳賴賵賶賷賸賹賺賻購賽賾賿" >>,
        << 36224, "趀趁趂趃趄超趆趇趈趉越趋趌趍趎趏趐趑趒趓趔趕趖趗趘趙趚趛趜趝趞趟趠趡趢趣趤趥趦趧趨趩趪趫趬趭趮趯趰趱趲足趴趵趶趷趸趹趺趻趼趽趾趿跀跁跂跃跄跅跆跇跈跉跊跋跌跍跎跏跐跑跒跓跔跕跖跗跘跙跚跛跜距跞跟跠跡跢跣跤跥跦跧跨跩跪跫跬跭跮路跰跱跲跳跴践跶跷跸跹跺跻跼跽跾跿" >>,
        << 36480, "躀躁躂躃躄躅躆躇躈躉躊躋躌躍躎躏躐躑躒躓躔躕躖躗躘躙躚躛躜躝躞躟躠躡躢躣躤躥躦躧躨躩躪身躬躭躮躯躰躱躲躳躴躵躶躷躸躹躺躻躼躽躾躿軀軁軂軃軄軅軆軇軈軉車軋軌軍軎軏軐軑軒軓軔軕軖軗軘軙軚軛軜軝軞軟軠軡転軣軤軥軦軧軨軩軪軫軬軭軮軯軰軱軲軳軴軵軶軷軸軹軺軻軼軽軾軿" >>,
        << 36736, "辀辁辂较辄辅辆辇辈辉辊辋辌辍辎辏辐辑辒输辔辕辖辗辘辙辚辛辜辝辞辟辠辡辢辣辤辥辦辧辨辩辪辫辬辭辮辯辰辱農辳辴辵辶辷辸边辺辻込辽达辿迀迁迂迃迄迅迆过迈迉迊迋迌迍迎迏运近迒迓返迕迖迗还这迚进远违连迟迠迡迢迣迤迥迦迧迨迩迪迫迬迭迮迯述迱迲迳迴迵迶迷迸迹迺迻迼追迾迿" >>,
        << 36992, "邀邁邂邃還邅邆邇邈邉邊邋邌邍邎邏邐邑邒邓邔邕邖邗邘邙邚邛邜邝邞邟邠邡邢那邤邥邦邧邨邩邪邫邬邭邮邯邰邱邲邳邴邵邶邷邸邹邺邻邼邽邾邿郀郁郂郃郄郅郆郇郈郉郊郋郌郍郎郏郐郑郒郓郔郕郖郗郘郙郚郛郜郝郞郟郠郡郢郣郤郥郦郧部郩郪郫郬郭郮郯郰郱郲郳郴郵郶郷郸郹郺郻郼都郾郿" >>,
        << 37248, "醀醁醂醃醄醅醆醇醈醉醊醋醌醍醎醏醐醑醒醓醔醕醖醗醘醙醚醛醜醝醞醟醠醡醢醣醤醥醦醧醨醩醪醫醬醭醮醯醰醱醲醳醴醵醶醷醸醹醺醻醼醽醾醿釀釁釂釃釄釅釆采釈釉释釋里重野量釐金釒釓釔釕釖釗釘釙釚釛釜針釞釟釠釡釢釣釤釥釦釧釨釩釪釫釬釭釮釯釰釱釲釳釴釵釶釷釸釹釺釻釼釽釾釿" >>,
        << 37504, "銀銁銂銃銄銅銆銇銈銉銊銋銌銍銎銏銐銑銒銓銔銕銖銗銘銙銚銛銜銝銞銟銠銡銢銣銤銥銦銧銨銩銪銫銬銭銮銯銰銱銲銳銴銵銶銷銸銹銺銻銼銽銾銿鋀鋁鋂鋃鋄鋅鋆鋇鋈鋉鋊鋋鋌鋍鋎鋏鋐鋑鋒鋓鋔鋕鋖鋗鋘鋙鋚鋛鋜鋝鋞鋟鋠鋡鋢鋣鋤鋥鋦鋧鋨鋩鋪鋫鋬鋭鋮鋯鋰鋱鋲鋳鋴鋵鋶鋷鋸鋹鋺鋻鋼鋽鋾鋿" >>,
        << 37760, "鎀鎁鎂鎃鎄鎅鎆鎇鎈鎉鎊鎋鎌鎍鎎鎏鎐鎑鎒鎓鎔鎕鎖鎗鎘鎙鎚鎛鎜鎝鎞鎟鎠鎡鎢鎣鎤鎥鎦鎧鎨鎩鎪鎫鎬鎭鎮鎯鎰鎱鎲鎳鎴鎵鎶鎷鎸鎹鎺鎻鎼鎽鎾鎿鏀鏁鏂鏃鏄鏅鏆鏇鏈鏉鏊鏋鏌鏍鏎鏏鏐鏑鏒鏓鏔鏕鏖鏗鏘鏙鏚鏛鏜鏝鏞鏟鏠鏡鏢鏣鏤鏥鏦鏧鏨鏩鏪鏫鏬鏭鏮鏯鏰鏱鏲鏳鏴鏵鏶鏷鏸鏹鏺鏻鏼鏽鏾鏿" >>,
        << 38016, "钀钁钂钃钄钅钆钇针钉钊钋钌钍钎钏钐钑钒钓钔钕钖钗钘钙钚钛钜钝钞钟钠钡钢钣钤钥钦钧钨钩钪钫钬钭钮钯钰钱钲钳钴钵钶钷钸钹钺钻钼钽钾钿铀铁铂铃铄铅铆铇铈铉铊铋铌铍铎铏铐铑铒铓铔铕铖铗铘铙铚铛铜铝铞铟铠铡铢铣铤铥铦铧铨铩铪铫铬铭铮铯铰铱铲铳铴铵银铷铸铹铺铻铼铽链铿" >>,
        << 38272, "門閁閂閃閄閅閆閇閈閉閊開閌閍閎閏閐閑閒間閔閕閖閗閘閙閚閛閜閝閞閟閠閡関閣閤閥閦閧閨閩閪閫閬閭閮閯閰閱閲閳閴閵閶閷閸閹閺閻閼閽閾閿闀闁闂闃闄闅闆闇闈闉闊闋闌闍闎闏闐闑闒闓闔闕闖闗闘闙闚闛關闝闞闟闠闡闢闣闤闥闦闧门闩闪闫闬闭问闯闰闱闲闳间闵闶闷闸闹闺闻闼闽闾闿" >>,
        << 38528, "隀隁隂隃隄隅隆隇隈隉隊隋隌隍階随隐隑隒隓隔隕隖隗隘隙隚際障隝隞隟隠隡隢隣隤隥隦隧隨隩險隫隬隭隮隯隰隱隲隳隴隵隶隷隸隹隺隻隼隽难隿雀雁雂雃雄雅集雇雈雉雊雋雌雍雎雏雐雑雒雓雔雕雖雗雘雙雚雛雜雝雞雟雠雡離難雤雥雦雧雨雩雪雫雬雭雮雯雰雱雲雳雴雵零雷雸雹雺電雼雽雾雿" >>,
        << 38784, "鞀鞁鞂鞃鞄鞅鞆鞇鞈鞉鞊鞋鞌鞍鞎鞏鞐鞑鞒鞓鞔鞕鞖鞗鞘鞙鞚鞛鞜鞝鞞鞟鞠鞡鞢鞣鞤鞥鞦鞧鞨鞩鞪鞫鞬鞭鞮鞯鞰鞱鞲鞳鞴鞵鞶鞷鞸鞹鞺鞻鞼鞽鞾鞿韀韁韂韃韄韅韆韇韈韉韊韋韌韍韎韏韐韑韒韓韔韕韖韗韘韙韚韛韜韝韞韟韠韡韢韣韤韥韦韧韨韩韪韫韬韭韮韯韰韱韲音韴韵韶韷韸韹韺韻韼韽韾響" >>,
        << 39040, "颀颁颂颃预颅领颇颈颉颊颋颌颍颎颏颐频颒颓颔颕颖颗题颙颚颛颜额颞颟颠颡颢颣颤颥颦颧風颩颪颫颬颭颮颯颰颱颲颳颴颵颶颷颸颹颺颻颼颽颾颿飀飁飂飃飄飅飆飇飈飉飊飋飌飍风飏飐飑飒飓飔飕飖飗飘飙飚飛飜飝飞食飠飡飢飣飤飥飦飧飨飩飪飫飬飭飮飯飰飱飲飳飴飵飶飷飸飹飺飻飼飽飾飿" >>,
        << 39296, "馀馁馂馃馄馅馆馇馈馉馊馋馌馍馎馏馐馑馒馓馔馕首馗馘香馚馛馜馝馞馟馠馡馢馣馤馥馦馧馨馩馪馫馬馭馮馯馰馱馲馳馴馵馶馷馸馹馺馻馼馽馾馿駀駁駂駃駄駅駆駇駈駉駊駋駌駍駎駏駐駑駒駓駔駕駖駗駘駙駚駛駜駝駞駟駠駡駢駣駤駥駦駧駨駩駪駫駬駭駮駯駰駱駲駳駴駵駶駷駸駹駺駻駼駽駾駿" >>,
        << 39552, "骀骁骂骃骄骅骆骇骈骉骊骋验骍骎骏骐骑骒骓骔骕骖骗骘骙骚骛骜骝骞骟骠骡骢骣骤骥骦骧骨骩骪骫骬骭骮骯骰骱骲骳骴骵骶骷骸骹骺骻骼骽骾骿髀髁髂髃髄髅髆髇髈髉髊髋髌髍髎髏髐髑髒髓體髕髖髗高髙髚髛髜髝髞髟髠髡髢髣髤髥髦髧髨髩髪髫髬髭髮髯髰髱髲髳髴髵髶髷髸髹髺髻髼髽髾髿" >>,
        << 39808, "鮀鮁鮂鮃鮄鮅鮆鮇鮈鮉鮊鮋鮌鮍鮎鮏鮐鮑鮒鮓鮔鮕鮖鮗鮘鮙鮚鮛鮜鮝鮞鮟鮠鮡鮢鮣鮤鮥鮦鮧鮨鮩鮪鮫鮬鮭鮮鮯鮰鮱鮲鮳鮴鮵鮶鮷鮸鮹鮺鮻鮼鮽鮾鮿鯀鯁鯂鯃鯄鯅鯆鯇鯈鯉鯊鯋鯌鯍鯎鯏鯐鯑鯒鯓鯔鯕鯖鯗鯘鯙鯚鯛鯜鯝鯞鯟鯠鯡鯢鯣鯤鯥鯦鯧鯨鯩鯪鯫鯬鯭鯮鯯鯰鯱鯲鯳鯴鯵鯶鯷鯸鯹鯺鯻鯼鯽鯾鯿" >>,
        << 40064, "鲀鲁鲂鲃鲄鲅鲆鲇鲈鲉鲊鲋鲌鲍鲎鲏鲐鲑鲒鲓鲔鲕鲖鲗鲘鲙鲚鲛鲜鲝鲞鲟鲠鲡鲢鲣鲤鲥鲦鲧鲨鲩鲪鲫鲬鲭鲮鲯鲰鲱鲲鲳鲴鲵鲶鲷鲸鲹鲺鲻鲼鲽鲾鲿鳀鳁鳂鳃鳄鳅鳆鳇鳈鳉鳊鳋鳌鳍鳎鳏鳐鳑鳒鳓鳔鳕鳖鳗鳘鳙鳚鳛鳜鳝鳞鳟鳠鳡鳢鳣鳤鳥鳦鳧鳨鳩鳪鳫鳬鳭鳮鳯鳰鳱鳲鳳鳴鳵鳶鳷鳸鳹鳺鳻鳼鳽鳾鳿" >>,
        << 40320, "鶀鶁鶂鶃鶄鶅鶆鶇鶈鶉鶊鶋鶌鶍鶎鶏鶐鶑鶒鶓鶔鶕鶖鶗鶘鶙鶚鶛鶜鶝鶞鶟鶠鶡鶢鶣鶤鶥鶦鶧鶨鶩鶪鶫鶬鶭鶮鶯鶰鶱鶲鶳鶴鶵鶶鶷鶸鶹鶺鶻鶼鶽鶾鶿鷀鷁鷂鷃鷄鷅鷆鷇鷈鷉鷊鷋鷌鷍鷎鷏鷐鷑鷒鷓鷔鷕鷖鷗鷘鷙鷚鷛鷜鷝鷞鷟鷠鷡鷢鷣鷤鷥鷦鷧鷨鷩鷪鷫鷬鷭鷮鷯鷰鷱鷲鷳鷴鷵鷶鷷鷸鷹鷺鷻鷼鷽鷾鷿" >>,
        << 40576, "麀麁麂麃麄麅麆麇麈麉麊麋麌麍麎麏麐麑麒麓麔麕麖麗麘麙麚麛麜麝麞麟麠麡麢麣麤麥麦麧麨麩麪麫麬麭麮麯麰麱麲麳麴麵麶麷麸麹麺麻麼麽麾麿黀黁黂黃黄黅黆黇黈黉黊黋黌黍黎黏黐黑黒黓黔黕黖黗默黙黚黛黜黝點黟黠黡黢黣黤黥黦黧黨黩黪黫黬黭黮黯黰黱黲黳黴黵黶黷黸黹黺黻黼黽黾黿" >>,
        << 40832, "龀龁龂龃龄龅龆龇龈龉龊龋龌龍龎龏龐龑龒龓龔龕龖龗龘龙龚龛龜龝龞龟龠龡龢龣龤龥龦龧龨龩龪龫龬龭龮龯龰龱龲龳龴龵龶龷龸龹龺龻龼龽龾龿鿀鿁鿂鿃鿄鿅鿆鿇鿈鿉鿊鿋鿌鿍鿎鿏鿐鿑鿒鿓鿔鿕鿖鿗鿘鿙鿚鿛鿜鿝鿞鿟鿠鿡鿢鿣鿤鿥鿦鿧鿨鿩鿪鿫鿬鿭鿮鿯鿰鿱鿲鿳鿴鿵鿶鿷鿸鿹鿺鿻鿼鿽鿾鿿" >>,
        << 41088, "ꂀꂁꂂꂃꂄꂅꂆꂇꂈꂉꂊꂋꂌꂍꂎꂏꂐꂑꂒꂓꂔꂕꂖꂗꂘꂙꂚꂛꂜꂝꂞꂟꂠꂡꂢꂣꂤꂥꂦꂧꂨꂩꂪꂫꂬꂭꂮꂯꂰꂱꂲꂳꂴꂵꂶꂷꂸꂹꂺꂻꂼꂽꂾꂿꃀꃁꃂꃃꃄꃅꃆꃇꃈꃉꃊꃋꃌꃍꃎꃏꃐꃑꃒꃓꃔꃕꃖꃗꃘꃙꃚꃛꃜꃝꃞꃟꃠꃡꃢꃣꃤꃥꃦꃧꃨꃩꃪꃫꃬꃭꃮꃯꃰꃱꃲꃳꃴꃵꃶꃷꃸꃹꃺꃻꃼꃽꃾꃿ" >>,
        << 41344, "ꆀꆁꆂꆃꆄꆅꆆꆇꆈꆉꆊꆋꆌꆍꆎꆏꆐꆑꆒꆓꆔꆕꆖꆗꆘꆙꆚꆛꆜꆝꆞꆟꆠꆡꆢꆣꆤꆥꆦꆧꆨꆩꆪꆫꆬꆭꆮꆯꆰꆱꆲꆳꆴꆵꆶꆷꆸꆹꆺꆻꆼꆽꆾꆿꇀꇁꇂꇃꇄꇅꇆꇇꇈꇉꇊꇋꇌꇍꇎꇏꇐꇑꇒꇓꇔꇕꇖꇗꇘꇙꇚꇛꇜꇝꇞꇟꇠꇡꇢꇣꇤꇥꇦꇧꇨꇩꇪꇫꇬꇭꇮꇯꇰꇱꇲꇳꇴꇵꇶꇷꇸꇹꇺꇻꇼꇽꇾꇿ" >>,
        << 41600, "ꊀꊁꊂꊃꊄꊅꊆꊇꊈꊉꊊꊋꊌꊍꊎꊏꊐꊑꊒꊓꊔꊕꊖꊗꊘꊙꊚꊛꊜꊝꊞꊟꊠꊡꊢꊣꊤꊥꊦꊧꊨꊩꊪꊫꊬꊭꊮꊯꊰꊱꊲꊳꊴꊵꊶꊷꊸꊹꊺꊻꊼꊽꊾꊿꋀꋁꋂꋃꋄꋅꋆꋇꋈꋉꋊꋋꋌꋍꋎꋏꋐꋑꋒꋓꋔꋕꋖꋗꋘꋙꋚꋛꋜꋝꋞꋟꋠꋡꋢꋣꋤꋥꋦꋧꋨꋩꋪꋫꋬꋭꋮꋯꋰꋱꋲꋳꋴꋵꋶꋷꋸꋹꋺꋻꋼꋽꋾꋿ" >>,
        << 41856, "ꎀꎁꎂꎃꎄꎅꎆꎇꎈꎉꎊꎋꎌꎍꎎꎏꎐꎑꎒꎓꎔꎕꎖꎗꎘꎙꎚꎛꎜꎝꎞꎟꎠꎡꎢꎣꎤꎥꎦꎧꎨꎩꎪꎫꎬꎭꎮꎯꎰꎱꎲꎳꎴꎵꎶꎷꎸꎹꎺꎻꎼꎽꎾꎿꏀꏁꏂꏃꏄꏅꏆꏇꏈꏉꏊꏋꏌꏍꏎꏏꏐꏑꏒꏓꏔꏕꏖꏗꏘꏙꏚꏛꏜꏝꏞꏟꏠꏡꏢꏣꏤꏥꏦꏧꏨꏩꏪꏫꏬꏭꏮꏯꏰꏱꏲꏳꏴꏵꏶꏷꏸꏹꏺꏻꏼꏽꏾꏿ" >>,
        << 42112, "ꒀꒁꒂꒃꒄꒅꒆꒇꒈꒉꒊꒋꒌ꒍꒎꒏꒐꒑꒒꒓꒔꒕꒖꒗꒘꒙꒚꒛꒜꒝꒞꒟꒠꒡꒢꒣꒤꒥꒦꒧꒨꒩꒪꒫꒬꒭꒮꒯꒰꒱꒲꒳꒴꒵꒶꒷꒸꒹꒺꒻꒼꒽꒾꒿꓀꓁꓂꓃꓄꓅꓆꓇꓈꓉꓊꓋꓌꓍꓎꓏ꓐꓑꓒꓓꓔꓕꓖꓗꓘꓙꓚꓛꓜꓝꓞꓟꓠꓡꓢꓣꓤꓥꓦꓧꓨꓩꓪꓫꓬꓭꓮꓯꓰꓱꓲꓳꓴꓵꓶꓷꓸꓹꓺꓻꓼꓽ꓾꓿" >>,
        << 42368, "ꖀꖁꖂꖃꖄꖅꖆꖇꖈꖉꖊꖋꖌꖍꖎꖏꖐꖑꖒꖓꖔꖕꖖꖗꖘꖙꖚꖛꖜꖝꖞꖟꖠꖡꖢꖣꖤꖥꖦꖧꖨꖩꖪꖫꖬꖭꖮꖯꖰꖱꖲꖳꖴꖵꖶꖷꖸꖹꖺꖻꖼꖽꖾꖿꗀꗁꗂꗃꗄꗅꗆꗇꗈꗉꗊꗋꗌꗍꗎꗏꗐꗑꗒꗓꗔꗕꗖꗗꗘꗙꗚꗛꗜꗝꗞꗟꗠꗡꗢꗣꗤꗥꗦꗧꗨꗩꗪꗫꗬꗭꗮꗯꗰꗱꗲꗳꗴꗵꗶꗷꗸꗹꗺꗻꗼꗽꗾꗿ" >>,
        << 42624, "ꚀꚁꚂꚃꚄꚅꚆꚇꚈꚉꚊꚋꚌꚍꚎꚏꚐꚑꚒꚓꚔꚕꚖꚗꚘꚙꚚꚛꚜꚝꚞꚟꚠꚡꚢꚣꚤꚥꚦꚧꚨꚩꚪꚫꚬꚭꚮꚯꚰꚱꚲꚳꚴꚵꚶꚷꚸꚹꚺꚻꚼꚽꚾꚿꛀꛁꛂꛃꛄꛅꛆꛇꛈꛉꛊꛋꛌꛍꛎꛏꛐꛑꛒꛓꛔꛕꛖꛗꛘꛙꛚꛛꛜꛝꛞꛟꛠꛡꛢꛣꛤꛥꛦꛧꛨꛩꛪꛫꛬꛭꛮꛯ꛰꛱꛲꛳꛴꛵꛶꛷꛸꛹꛺꛻꛼꛽꛾꛿" >>,
        << 42880, "ꞀꞁꞂꞃꞄꞅꞆꞇꞈ꞉꞊ꞋꞌꞍꞎꞏꞐꞑꞒꞓꞔꞕꞖꞗꞘꞙꞚꞛꞜꞝꞞꞟꞠꞡꞢꞣꞤꞥꞦꞧꞨꞩꞪꞫꞬꞭꞮꞯꞰꞱꞲꞳꞴꞵꞶꞷꞸꞹꞺꞻꞼꞽꞾꞿꟀꟁꟂꟃꟄꟅꟆꟇꟈꟉꟊꟋꟌꟍ꟎꟏Ꟑꟑ꟒ꟓ꟔ꟕꟖꟗꟘꟙꟚꟛꟜ꟝꟞꟟꟠꟡꟢꟣꟤꟥꟦꟧꟨꟩꟪꟫꟬꟭꟮꟯꟰꟱ꟲꟳꟴꟵꟶꟷꟸꟹꟺꟻꟼꟽꟾꟿ" >>,
        << 43136, "ꢀꢁꢂꢃꢄꢅꢆꢇꢈꢉꢊꢋꢌꢍꢎꢏꢐꢑꢒꢓꢔꢕꢖꢗꢘꢙꢚꢛꢜꢝꢞꢟꢠꢡꢢꢣꢤꢥꢦꢧꢨꢩꢪꢫꢬꢭꢮꢯꢰꢱꢲꢳꢴꢵꢶꢷꢸꢹꢺꢻꢼꢽꢾꢿꣀꣁꣂꣃ꣄ꣅ꣆꣇꣈꣉꣊꣋꣌꣍꣎꣏꣐꣑꣒꣓꣔꣕꣖꣗꣘꣙꣚꣛꣜꣝꣞꣟꣠꣡꣢꣣꣤꣥꣦꣧꣨꣩꣪꣫꣬꣭꣮꣯꣰꣱ꣲꣳꣴꣵꣶꣷ꣸꣹꣺ꣻ꣼ꣽꣾꣿ" >>,
        << 43392, "ꦀꦁꦂꦃꦄꦅꦆꦇꦈꦉꦊꦋꦌꦍꦎꦏꦐꦑꦒꦓꦔꦕꦖꦗꦘꦙꦚꦛꦜꦝꦞꦟꦠꦡꦢꦣꦤꦥꦦꦧꦨꦩꦪꦫꦬꦭꦮꦯꦰꦱꦲ꦳ꦴꦵꦶꦷꦸꦹꦺꦻꦼꦽꦾꦿ꧀꧁꧂꧃꧄꧅꧆꧇꧈꧉꧊꧋꧌꧍꧎ꧏ꧐꧑꧒꧓꧔꧕꧖꧗꧘꧙꧚꧛꧜꧝꧞꧟ꧠꧡꧢꧣꧤꧥꧦꧧꧨꧩꧪꧫꧬꧭꧮꧯ꧰꧱꧲꧳꧴꧵꧶꧷꧸꧹ꧺꧻꧼꧽꧾ꧿" >>,
        << 43648, "ꪀꪁꪂꪃꪄꪅꪆꪇꪈꪉꪊꪋꪌꪍꪎꪏꪐꪑꪒꪓꪔꪕꪖꪗꪘꪙꪚꪛꪜꪝꪞꪟꪠꪡꪢꪣꪤꪥꪦꪧꪨꪩꪪꪫꪬꪭꪮꪯꪰꪱꪴꪲꪳꪵꪶꪷꪸꪹꪺꪻꪼꪽꪾ꪿ꫀ꫁ꫂ꫃꫄꫅꫆꫇꫈꫉꫊꫋꫌꫍꫎꫏꫐꫑꫒꫓꫔꫕꫖꫗꫘꫙꫚ꫛꫜꫝ꫞꫟ꫠꫡꫢꫣꫤꫥꫦꫧꫨꫩꫪꫫꫬꫭꫮꫯ꫰꫱ꫲꫳꫴꫵ꫶꫷꫸꫹꫺꫻꫼꫽꫾꫿" >>,
        << 43904, "ꮀꮁꮂꮃꮄꮅꮆꮇꮈꮉꮊꮋꮌꮍꮎꮏꮐꮑꮒꮓꮔꮕꮖꮗꮘꮙꮚꮛꮜꮝꮞꮟꮠꮡꮢꮣꮤꮥꮦꮧꮨꮩꮪꮫꮬꮭꮮꮯꮰꮱꮲꮳꮴꮵꮶꮷꮸꮹꮺꮻꮼꮽꮾꮿꯀꯁꯂꯃꯄꯅꯆꯇꯈꯉꯊꯋꯌꯍꯎꯏꯐꯑꯒꯓꯔꯕꯖꯗꯘꯙꯚꯛꯜꯝꯞꯟꯠꯡꯢꯣꯤꯥꯦꯧꯨꯩꯪ꯫꯬꯭꯮꯯꯰꯱꯲꯳꯴꯵꯶꯷꯸꯹꯺꯻꯼꯽꯾꯿" >>,
        << 44160, "검겁겂것겄겅겆겇겈겉겊겋게겍겎겏겐겑겒겓겔겕겖겗겘겙겚겛겜겝겞겟겠겡겢겣겤겥겦겧겨격겪겫견겭겮겯결겱겲겳겴겵겶겷겸겹겺겻겼경겾겿곀곁곂곃계곅곆곇곈곉곊곋곌곍곎곏곐곑곒곓곔곕곖곗곘곙곚곛곜곝곞곟고곡곢곣곤곥곦곧골곩곪곫곬곭곮곯곰곱곲곳곴공곶곷곸곹곺곻과곽곾곿" >>,
        << 44416, "궀궁궂궃궄궅궆궇궈궉궊궋권궍궎궏궐궑궒궓궔궕궖궗궘궙궚궛궜궝궞궟궠궡궢궣궤궥궦궧궨궩궪궫궬궭궮궯궰궱궲궳궴궵궶궷궸궹궺궻궼궽궾궿귀귁귂귃귄귅귆귇귈귉귊귋귌귍귎귏귐귑귒귓귔귕귖귗귘귙귚귛규귝귞귟균귡귢귣귤귥귦귧귨귩귪귫귬귭귮귯귰귱귲귳귴귵귶귷그극귺귻근귽귾귿" >>,
        << 44672, "꺀꺁꺂꺃꺄꺅꺆꺇꺈꺉꺊꺋꺌꺍꺎꺏꺐꺑꺒꺓꺔꺕꺖꺗꺘꺙꺚꺛꺜꺝꺞꺟꺠꺡꺢꺣꺤꺥꺦꺧꺨꺩꺪꺫꺬꺭꺮꺯꺰꺱꺲꺳꺴꺵꺶꺷꺸꺹꺺꺻꺼꺽꺾꺿껀껁껂껃껄껅껆껇껈껉껊껋껌껍껎껏껐껑껒껓껔껕껖껗께껙껚껛껜껝껞껟껠껡껢껣껤껥껦껧껨껩껪껫껬껭껮껯껰껱껲껳껴껵껶껷껸껹껺껻껼껽껾껿" >>,
        << 44928, "꾀꾁꾂꾃꾄꾅꾆꾇꾈꾉꾊꾋꾌꾍꾎꾏꾐꾑꾒꾓꾔꾕꾖꾗꾘꾙꾚꾛꾜꾝꾞꾟꾠꾡꾢꾣꾤꾥꾦꾧꾨꾩꾪꾫꾬꾭꾮꾯꾰꾱꾲꾳꾴꾵꾶꾷꾸꾹꾺꾻꾼꾽꾾꾿꿀꿁꿂꿃꿄꿅꿆꿇꿈꿉꿊꿋꿌꿍꿎꿏꿐꿑꿒꿓꿔꿕꿖꿗꿘꿙꿚꿛꿜꿝꿞꿟꿠꿡꿢꿣꿤꿥꿦꿧꿨꿩꿪꿫꿬꿭꿮꿯꿰꿱꿲꿳꿴꿵꿶꿷꿸꿹꿺꿻꿼꿽꿾꿿" >>,
        << 45184, "낀낁낂낃낄낅낆낇낈낉낊낋낌낍낎낏낐낑낒낓낔낕낖낗나낙낚낛난낝낞낟날낡낢낣낤낥낦낧남납낪낫났낭낮낯낰낱낲낳내낵낶낷낸낹낺낻낼낽낾낿냀냁냂냃냄냅냆냇냈냉냊냋냌냍냎냏냐냑냒냓냔냕냖냗냘냙냚냛냜냝냞냟냠냡냢냣냤냥냦냧냨냩냪냫냬냭냮냯냰냱냲냳냴냵냶냷냸냹냺냻냼냽냾냿" >>,
        << 45440, "놀놁놂놃놄놅놆놇놈놉놊놋놌농놎놏놐놑높놓놔놕놖놗놘놙놚놛놜놝놞놟놠놡놢놣놤놥놦놧놨놩놪놫놬놭놮놯놰놱놲놳놴놵놶놷놸놹놺놻놼놽놾놿뇀뇁뇂뇃뇄뇅뇆뇇뇈뇉뇊뇋뇌뇍뇎뇏뇐뇑뇒뇓뇔뇕뇖뇗뇘뇙뇚뇛뇜뇝뇞뇟뇠뇡뇢뇣뇤뇥뇦뇧뇨뇩뇪뇫뇬뇭뇮뇯뇰뇱뇲뇳뇴뇵뇶뇷뇸뇹뇺뇻뇼뇽뇾뇿" >>,
        << 45696, "늀늁늂늃늄늅늆늇늈늉늊늋늌늍늎늏느늑늒늓는늕늖늗늘늙늚늛늜늝늞늟늠늡늢늣늤능늦늧늨늩늪늫늬늭늮늯늰늱늲늳늴늵늶늷늸늹늺늻늼늽늾늿닀닁닂닃닄닅닆닇니닉닊닋닌닍닎닏닐닑닒닓닔닕닖닗님닙닚닛닜닝닞닟닠닡닢닣다닥닦닧단닩닪닫달닭닮닯닰닱닲닳담답닶닷닸당닺닻닼닽닾닿" >>,
        << 45952, "뎀뎁뎂뎃뎄뎅뎆뎇뎈뎉뎊뎋뎌뎍뎎뎏뎐뎑뎒뎓뎔뎕뎖뎗뎘뎙뎚뎛뎜뎝뎞뎟뎠뎡뎢뎣뎤뎥뎦뎧뎨뎩뎪뎫뎬뎭뎮뎯뎰뎱뎲뎳뎴뎵뎶뎷뎸뎹뎺뎻뎼뎽뎾뎿돀돁돂돃도독돆돇돈돉돊돋돌돍돎돏돐돑돒돓돔돕돖돗돘동돚돛돜돝돞돟돠돡돢돣돤돥돦돧돨돩돪돫돬돭돮돯돰돱돲돳돴돵돶돷돸돹돺돻돼돽돾돿" >>,
        << 46208, "뒀뒁뒂뒃뒄뒅뒆뒇뒈뒉뒊뒋뒌뒍뒎뒏뒐뒑뒒뒓뒔뒕뒖뒗뒘뒙뒚뒛뒜뒝뒞뒟뒠뒡뒢뒣뒤뒥뒦뒧뒨뒩뒪뒫뒬뒭뒮뒯뒰뒱뒲뒳뒴뒵뒶뒷뒸뒹뒺뒻뒼뒽뒾뒿듀듁듂듃듄듅듆듇듈듉듊듋듌듍듎듏듐듑듒듓듔듕듖듗듘듙듚듛드득듞듟든듡듢듣들듥듦듧듨듩듪듫듬듭듮듯듰등듲듳듴듵듶듷듸듹듺듻듼듽듾듿" >>,
        << 46464, "떀떁떂떃떄떅떆떇떈떉떊떋떌떍떎떏떐떑떒떓떔떕떖떗떘떙떚떛떜떝떞떟떠떡떢떣떤떥떦떧떨떩떪떫떬떭떮떯떰떱떲떳떴떵떶떷떸떹떺떻떼떽떾떿뗀뗁뗂뗃뗄뗅뗆뗇뗈뗉뗊뗋뗌뗍뗎뗏뗐뗑뗒뗓뗔뗕뗖뗗뗘뗙뗚뗛뗜뗝뗞뗟뗠뗡뗢뗣뗤뗥뗦뗧뗨뗩뗪뗫뗬뗭뗮뗯뗰뗱뗲뗳뗴뗵뗶뗷뗸뗹뗺뗻뗼뗽뗾뗿" >>,
        << 46720, "뚀뚁뚂뚃뚄뚅뚆뚇뚈뚉뚊뚋뚌뚍뚎뚏뚐뚑뚒뚓뚔뚕뚖뚗뚘뚙뚚뚛뚜뚝뚞뚟뚠뚡뚢뚣뚤뚥뚦뚧뚨뚩뚪뚫뚬뚭뚮뚯뚰뚱뚲뚳뚴뚵뚶뚷뚸뚹뚺뚻뚼뚽뚾뚿뛀뛁뛂뛃뛄뛅뛆뛇뛈뛉뛊뛋뛌뛍뛎뛏뛐뛑뛒뛓뛔뛕뛖뛗뛘뛙뛚뛛뛜뛝뛞뛟뛠뛡뛢뛣뛤뛥뛦뛧뛨뛩뛪뛫뛬뛭뛮뛯뛰뛱뛲뛳뛴뛵뛶뛷뛸뛹뛺뛻뛼뛽뛾뛿" >>,
        << 46976, "란랁랂랃랄랅랆랇랈랉랊랋람랍랎랏랐랑랒랓랔랕랖랗래랙랚랛랜랝랞랟랠랡랢랣랤랥랦랧램랩랪랫랬랭랮랯랰랱랲랳랴략랶랷랸랹랺랻랼랽랾랿럀럁럂럃럄럅럆럇럈량럊럋럌럍럎럏럐럑럒럓럔럕럖럗럘럙럚럛럜럝럞럟럠럡럢럣럤럥럦럧럨럩럪럫러럭럮럯런럱럲럳럴럵럶럷럸럹럺럻럼럽럾럿" >>,
        << 47232, "뢀뢁뢂뢃뢄뢅뢆뢇뢈뢉뢊뢋뢌뢍뢎뢏뢐뢑뢒뢓뢔뢕뢖뢗뢘뢙뢚뢛뢜뢝뢞뢟뢠뢡뢢뢣뢤뢥뢦뢧뢨뢩뢪뢫뢬뢭뢮뢯뢰뢱뢲뢳뢴뢵뢶뢷뢸뢹뢺뢻뢼뢽뢾뢿룀룁룂룃룄룅룆룇룈룉룊룋료룍룎룏룐룑룒룓룔룕룖룗룘룙룚룛룜룝룞룟룠룡룢룣룤룥룦룧루룩룪룫룬룭룮룯룰룱룲룳룴룵룶룷룸룹룺룻룼룽룾룿" >>,
        << 47488, "릀릁릂릃름릅릆릇릈릉릊릋릌릍릎릏릐릑릒릓릔릕릖릗릘릙릚릛릜릝릞릟릠릡릢릣릤릥릦릧릨릩릪릫리릭릮릯린릱릲릳릴릵릶릷릸릹릺릻림립릾릿맀링맂맃맄맅맆맇마막맊맋만맍많맏말맑맒맓맔맕맖맗맘맙맚맛맜망맞맟맠맡맢맣매맥맦맧맨맩맪맫맬맭맮맯맰맱맲맳맴맵맶맷맸맹맺맻맼맽맾맿" >>,
        << 47744, "몀몁몂몃몄명몆몇몈몉몊몋몌몍몎몏몐몑몒몓몔몕몖몗몘몙몚몛몜몝몞몟몠몡몢몣몤몥몦몧모목몪몫몬몭몮몯몰몱몲몳몴몵몶몷몸몹몺못몼몽몾몿뫀뫁뫂뫃뫄뫅뫆뫇뫈뫉뫊뫋뫌뫍뫎뫏뫐뫑뫒뫓뫔뫕뫖뫗뫘뫙뫚뫛뫜뫝뫞뫟뫠뫡뫢뫣뫤뫥뫦뫧뫨뫩뫪뫫뫬뫭뫮뫯뫰뫱뫲뫳뫴뫵뫶뫷뫸뫹뫺뫻뫼뫽뫾뫿" >>,
        << 48000, "뮀뮁뮂뮃뮄뮅뮆뮇뮈뮉뮊뮋뮌뮍뮎뮏뮐뮑뮒뮓뮔뮕뮖뮗뮘뮙뮚뮛뮜뮝뮞뮟뮠뮡뮢뮣뮤뮥뮦뮧뮨뮩뮪뮫뮬뮭뮮뮯뮰뮱뮲뮳뮴뮵뮶뮷뮸뮹뮺뮻뮼뮽뮾뮿므믁믂믃믄믅믆믇믈믉믊믋믌믍믎믏믐믑믒믓믔믕믖믗믘믙믚믛믜믝믞믟믠믡믢믣믤믥믦믧믨믩믪믫믬믭믮믯믰믱믲믳믴믵믶믷미믹믺믻민믽믾믿" >>,
        << 48256, "벀벁벂벃버벅벆벇번벉벊벋벌벍벎벏벐벑벒벓범법벖벗벘벙벚벛벜벝벞벟베벡벢벣벤벥벦벧벨벩벪벫벬벭벮벯벰벱벲벳벴벵벶벷벸벹벺벻벼벽벾벿변볁볂볃별볅볆볇볈볉볊볋볌볍볎볏볐병볒볓볔볕볖볗볘볙볚볛볜볝볞볟볠볡볢볣볤볥볦볧볨볩볪볫볬볭볮볯볰볱볲볳보복볶볷본볹볺볻볼볽볾볿" >>,
        << 48512, "부북붂붃분붅붆붇불붉붊붋붌붍붎붏붐붑붒붓붔붕붖붗붘붙붚붛붜붝붞붟붠붡붢붣붤붥붦붧붨붩붪붫붬붭붮붯붰붱붲붳붴붵붶붷붸붹붺붻붼붽붾붿뷀뷁뷂뷃뷄뷅뷆뷇뷈뷉뷊뷋뷌뷍뷎뷏뷐뷑뷒뷓뷔뷕뷖뷗뷘뷙뷚뷛뷜뷝뷞뷟뷠뷡뷢뷣뷤뷥뷦뷧뷨뷩뷪뷫뷬뷭뷮뷯뷰뷱뷲뷳뷴뷵뷶뷷뷸뷹뷺뷻뷼뷽뷾뷿" >>,
        << 48768, "뺀뺁뺂뺃뺄뺅뺆뺇뺈뺉뺊뺋뺌뺍뺎뺏뺐뺑뺒뺓뺔뺕뺖뺗뺘뺙뺚뺛뺜뺝뺞뺟뺠뺡뺢뺣뺤뺥뺦뺧뺨뺩뺪뺫뺬뺭뺮뺯뺰뺱뺲뺳뺴뺵뺶뺷뺸뺹뺺뺻뺼뺽뺾뺿뻀뻁뻂뻃뻄뻅뻆뻇뻈뻉뻊뻋뻌뻍뻎뻏뻐뻑뻒뻓뻔뻕뻖뻗뻘뻙뻚뻛뻜뻝뻞뻟뻠뻡뻢뻣뻤뻥뻦뻧뻨뻩뻪뻫뻬뻭뻮뻯뻰뻱뻲뻳뻴뻵뻶뻷뻸뻹뻺뻻뻼뻽뻾뻿" >>,
        << 49024, "뾀뾁뾂뾃뾄뾅뾆뾇뾈뾉뾊뾋뾌뾍뾎뾏뾐뾑뾒뾓뾔뾕뾖뾗뾘뾙뾚뾛뾜뾝뾞뾟뾠뾡뾢뾣뾤뾥뾦뾧뾨뾩뾪뾫뾬뾭뾮뾯뾰뾱뾲뾳뾴뾵뾶뾷뾸뾹뾺뾻뾼뾽뾾뾿뿀뿁뿂뿃뿄뿅뿆뿇뿈뿉뿊뿋뿌뿍뿎뿏뿐뿑뿒뿓뿔뿕뿖뿗뿘뿙뿚뿛뿜뿝뿞뿟뿠뿡뿢뿣뿤뿥뿦뿧뿨뿩뿪뿫뿬뿭뿮뿯뿰뿱뿲뿳뿴뿵뿶뿷뿸뿹뿺뿻뿼뿽뿾뿿" >>,
        << 49280, "삀삁삂삃삄삅삆삇삈삉삊삋삌삍삎삏삐삑삒삓삔삕삖삗삘삙삚삛삜삝삞삟삠삡삢삣삤삥삦삧삨삩삪삫사삭삮삯산삱삲삳살삵삶삷삸삹삺삻삼삽삾삿샀상샂샃샄샅샆샇새색샊샋샌샍샎샏샐샑샒샓샔샕샖샗샘샙샚샛샜생샞샟샠샡샢샣샤샥샦샧샨샩샪샫샬샭샮샯샰샱샲샳샴샵샶샷샸샹샺샻샼샽샾샿" >>,
        << 49536, "솀솁솂솃솄솅솆솇솈솉솊솋소속솎솏손솑솒솓솔솕솖솗솘솙솚솛솜솝솞솟솠송솢솣솤솥솦솧솨솩솪솫솬솭솮솯솰솱솲솳솴솵솶솷솸솹솺솻솼솽솾솿쇀쇁쇂쇃쇄쇅쇆쇇쇈쇉쇊쇋쇌쇍쇎쇏쇐쇑쇒쇓쇔쇕쇖쇗쇘쇙쇚쇛쇜쇝쇞쇟쇠쇡쇢쇣쇤쇥쇦쇧쇨쇩쇪쇫쇬쇭쇮쇯쇰쇱쇲쇳쇴쇵쇶쇷쇸쇹쇺쇻쇼쇽쇾쇿" >>,
        << 49792, "슀슁슂슃슄슅슆슇슈슉슊슋슌슍슎슏슐슑슒슓슔슕슖슗슘슙슚슛슜슝슞슟슠슡슢슣스슥슦슧슨슩슪슫슬슭슮슯슰슱슲슳슴습슶슷슸승슺슻슼슽슾슿싀싁싂싃싄싅싆싇싈싉싊싋싌싍싎싏싐싑싒싓싔싕싖싗싘싙싚싛시식싞싟신싡싢싣실싥싦싧싨싩싪싫심십싮싯싰싱싲싳싴싵싶싷싸싹싺싻싼싽싾싿" >>,
        << 50048, "쎀쎁쎂쎃쎄쎅쎆쎇쎈쎉쎊쎋쎌쎍쎎쎏쎐쎑쎒쎓쎔쎕쎖쎗쎘쎙쎚쎛쎜쎝쎞쎟쎠쎡쎢쎣쎤쎥쎦쎧쎨쎩쎪쎫쎬쎭쎮쎯쎰쎱쎲쎳쎴쎵쎶쎷쎸쎹쎺쎻쎼쎽쎾쎿쏀쏁쏂쏃쏄쏅쏆쏇쏈쏉쏊쏋쏌쏍쏎쏏쏐쏑쏒쏓쏔쏕쏖쏗쏘쏙쏚쏛쏜쏝쏞쏟쏠쏡쏢쏣쏤쏥쏦쏧쏨쏩쏪쏫쏬쏭쏮쏯쏰쏱쏲쏳쏴쏵쏶쏷쏸쏹쏺쏻쏼쏽쏾쏿" >>,
        << 50304, "쒀쒁쒂쒃쒄쒅쒆쒇쒈쒉쒊쒋쒌쒍쒎쒏쒐쒑쒒쒓쒔쒕쒖쒗쒘쒙쒚쒛쒜쒝쒞쒟쒠쒡쒢쒣쒤쒥쒦쒧쒨쒩쒪쒫쒬쒭쒮쒯쒰쒱쒲쒳쒴쒵쒶쒷쒸쒹쒺쒻쒼쒽쒾쒿쓀쓁쓂쓃쓄쓅쓆쓇쓈쓉쓊쓋쓌쓍쓎쓏쓐쓑쓒쓓쓔쓕쓖쓗쓘쓙쓚쓛쓜쓝쓞쓟쓠쓡쓢쓣쓤쓥쓦쓧쓨쓩쓪쓫쓬쓭쓮쓯쓰쓱쓲쓳쓴쓵쓶쓷쓸쓹쓺쓻쓼쓽쓾쓿" >>,
        << 50560, "얀얁얂얃얄얅얆얇얈얉얊얋얌얍얎얏얐양얒얓얔얕얖얗얘얙얚얛얜얝얞얟얠얡얢얣얤얥얦얧얨얩얪얫얬얭얮얯얰얱얲얳어억얶얷언얹얺얻얼얽얾얿엀엁엂엃엄업없엇었엉엊엋엌엍엎엏에엑엒엓엔엕엖엗엘엙엚엛엜엝엞엟엠엡엢엣엤엥엦엧엨엩엪엫여역엮엯연엱엲엳열엵엶엷엸엹엺엻염엽엾엿" >>,
        << 50816, "욀욁욂욃욄욅욆욇욈욉욊욋욌욍욎욏욐욑욒욓요욕욖욗욘욙욚욛욜욝욞욟욠욡욢욣욤욥욦욧욨용욪욫욬욭욮욯우욱욲욳운욵욶욷울욹욺욻욼욽욾욿움웁웂웃웄웅웆웇웈웉웊웋워웍웎웏원웑웒웓월웕웖웗웘웙웚웛웜웝웞웟웠웡웢웣웤웥웦웧웨웩웪웫웬웭웮웯웰웱웲웳웴웵웶웷웸웹웺웻웼웽웾웿" >>,
        << 51072, "잀잁잂잃임입잆잇있잉잊잋잌잍잎잏자작잒잓잔잕잖잗잘잙잚잛잜잝잞잟잠잡잢잣잤장잦잧잨잩잪잫재잭잮잯잰잱잲잳잴잵잶잷잸잹잺잻잼잽잾잿쟀쟁쟂쟃쟄쟅쟆쟇쟈쟉쟊쟋쟌쟍쟎쟏쟐쟑쟒쟓쟔쟕쟖쟗쟘쟙쟚쟛쟜쟝쟞쟟쟠쟡쟢쟣쟤쟥쟦쟧쟨쟩쟪쟫쟬쟭쟮쟯쟰쟱쟲쟳쟴쟵쟶쟷쟸쟹쟺쟻쟼쟽쟾쟿" >>,
        << 51328, "좀좁좂좃좄종좆좇좈좉좊좋좌좍좎좏좐좑좒좓좔좕좖좗좘좙좚좛좜좝좞좟좠좡좢좣좤좥좦좧좨좩좪좫좬좭좮좯좰좱좲좳좴좵좶좷좸좹좺좻좼좽좾좿죀죁죂죃죄죅죆죇죈죉죊죋죌죍죎죏죐죑죒죓죔죕죖죗죘죙죚죛죜죝죞죟죠죡죢죣죤죥죦죧죨죩죪죫죬죭죮죯죰죱죲죳죴죵죶죷죸죹죺죻주죽죾죿" >>,
        << 51584, "즀즁즂즃즄즅즆즇즈즉즊즋즌즍즎즏즐즑즒즓즔즕즖즗즘즙즚즛즜증즞즟즠즡즢즣즤즥즦즧즨즩즪즫즬즭즮즯즰즱즲즳즴즵즶즷즸즹즺즻즼즽즾즿지직짂짃진짅짆짇질짉짊짋짌짍짎짏짐집짒짓짔징짖짗짘짙짚짛짜짝짞짟짠짡짢짣짤짥짦짧짨짩짪짫짬짭짮짯짰짱짲짳짴짵짶짷째짹짺짻짼짽짾짿" >>,
        << 51840, "쪀쪁쪂쪃쪄쪅쪆쪇쪈쪉쪊쪋쪌쪍쪎쪏쪐쪑쪒쪓쪔쪕쪖쪗쪘쪙쪚쪛쪜쪝쪞쪟쪠쪡쪢쪣쪤쪥쪦쪧쪨쪩쪪쪫쪬쪭쪮쪯쪰쪱쪲쪳쪴쪵쪶쪷쪸쪹쪺쪻쪼쪽쪾쪿쫀쫁쫂쫃쫄쫅쫆쫇쫈쫉쫊쫋쫌쫍쫎쫏쫐쫑쫒쫓쫔쫕쫖쫗쫘쫙쫚쫛쫜쫝쫞쫟쫠쫡쫢쫣쫤쫥쫦쫧쫨쫩쫪쫫쫬쫭쫮쫯쫰쫱쫲쫳쫴쫵쫶쫷쫸쫹쫺쫻쫼쫽쫾쫿" >>,
        << 52096, "쮀쮁쮂쮃쮄쮅쮆쮇쮈쮉쮊쮋쮌쮍쮎쮏쮐쮑쮒쮓쮔쮕쮖쮗쮘쮙쮚쮛쮜쮝쮞쮟쮠쮡쮢쮣쮤쮥쮦쮧쮨쮩쮪쮫쮬쮭쮮쮯쮰쮱쮲쮳쮴쮵쮶쮷쮸쮹쮺쮻쮼쮽쮾쮿쯀쯁쯂쯃쯄쯅쯆쯇쯈쯉쯊쯋쯌쯍쯎쯏쯐쯑쯒쯓쯔쯕쯖쯗쯘쯙쯚쯛쯜쯝쯞쯟쯠쯡쯢쯣쯤쯥쯦쯧쯨쯩쯪쯫쯬쯭쯮쯯쯰쯱쯲쯳쯴쯵쯶쯷쯸쯹쯺쯻쯼쯽쯾쯿" >>,
        << 52352, "첀첁첂첃첄첅첆첇첈첉첊첋첌첍첎첏첐첑첒첓첔첕첖첗처척첚첛천첝첞첟철첡첢첣첤첥첦첧첨첩첪첫첬청첮첯첰첱첲첳체첵첶첷첸첹첺첻첼첽첾첿쳀쳁쳂쳃쳄쳅쳆쳇쳈쳉쳊쳋쳌쳍쳎쳏쳐쳑쳒쳓쳔쳕쳖쳗쳘쳙쳚쳛쳜쳝쳞쳟쳠쳡쳢쳣쳤쳥쳦쳧쳨쳩쳪쳫쳬쳭쳮쳯쳰쳱쳲쳳쳴쳵쳶쳷쳸쳹쳺쳻쳼쳽쳾쳿" >>,
        << 52608, "춀춁춂춃춄춅춆춇춈춉춊춋춌춍춎춏춐춑춒춓추축춖춗춘춙춚춛출춝춞춟춠춡춢춣춤춥춦춧춨충춪춫춬춭춮춯춰춱춲춳춴춵춶춷춸춹춺춻춼춽춾춿췀췁췂췃췄췅췆췇췈췉췊췋췌췍췎췏췐췑췒췓췔췕췖췗췘췙췚췛췜췝췞췟췠췡췢췣췤췥췦췧취췩췪췫췬췭췮췯췰췱췲췳췴췵췶췷췸췹췺췻췼췽췾췿" >>,
        << 52864, "캀캁캂캃캄캅캆캇캈캉캊캋캌캍캎캏캐캑캒캓캔캕캖캗캘캙캚캛캜캝캞캟캠캡캢캣캤캥캦캧캨캩캪캫캬캭캮캯캰캱캲캳캴캵캶캷캸캹캺캻캼캽캾캿컀컁컂컃컄컅컆컇컈컉컊컋컌컍컎컏컐컑컒컓컔컕컖컗컘컙컚컛컜컝컞컟컠컡컢컣커컥컦컧컨컩컪컫컬컭컮컯컰컱컲컳컴컵컶컷컸컹컺컻컼컽컾컿" >>,
        << 53120, "쾀쾁쾂쾃쾄쾅쾆쾇쾈쾉쾊쾋쾌쾍쾎쾏쾐쾑쾒쾓쾔쾕쾖쾗쾘쾙쾚쾛쾜쾝쾞쾟쾠쾡쾢쾣쾤쾥쾦쾧쾨쾩쾪쾫쾬쾭쾮쾯쾰쾱쾲쾳쾴쾵쾶쾷쾸쾹쾺쾻쾼쾽쾾쾿쿀쿁쿂쿃쿄쿅쿆쿇쿈쿉쿊쿋쿌쿍쿎쿏쿐쿑쿒쿓쿔쿕쿖쿗쿘쿙쿚쿛쿜쿝쿞쿟쿠쿡쿢쿣쿤쿥쿦쿧쿨쿩쿪쿫쿬쿭쿮쿯쿰쿱쿲쿳쿴쿵쿶쿷쿸쿹쿺쿻쿼쿽쿾쿿" >>,
        << 53376, "킀킁킂킃킄킅킆킇킈킉킊킋킌킍킎킏킐킑킒킓킔킕킖킗킘킙킚킛킜킝킞킟킠킡킢킣키킥킦킧킨킩킪킫킬킭킮킯킰킱킲킳킴킵킶킷킸킹킺킻킼킽킾킿타탁탂탃탄탅탆탇탈탉탊탋탌탍탎탏탐탑탒탓탔탕탖탗탘탙탚탛태택탞탟탠탡탢탣탤탥탦탧탨탩탪탫탬탭탮탯탰탱탲탳탴탵탶탷탸탹탺탻탼탽탾탿" >>,
        << 53632, "톀톁톂톃톄톅톆톇톈톉톊톋톌톍톎톏톐톑톒톓톔톕톖톗톘톙톚톛톜톝톞톟토톡톢톣톤톥톦톧톨톩톪톫톬톭톮톯톰톱톲톳톴통톶톷톸톹톺톻톼톽톾톿퇀퇁퇂퇃퇄퇅퇆퇇퇈퇉퇊퇋퇌퇍퇎퇏퇐퇑퇒퇓퇔퇕퇖퇗퇘퇙퇚퇛퇜퇝퇞퇟퇠퇡퇢퇣퇤퇥퇦퇧퇨퇩퇪퇫퇬퇭퇮퇯퇰퇱퇲퇳퇴퇵퇶퇷퇸퇹퇺퇻퇼퇽퇾퇿" >>,
        << 53888, "튀튁튂튃튄튅튆튇튈튉튊튋튌튍튎튏튐튑튒튓튔튕튖튗튘튙튚튛튜튝튞튟튠튡튢튣튤튥튦튧튨튩튪튫튬튭튮튯튰튱튲튳튴튵튶튷트특튺튻튼튽튾튿틀틁틂틃틄틅틆틇틈틉틊틋틌틍틎틏틐틑틒틓틔틕틖틗틘틙틚틛틜틝틞틟틠틡틢틣틤틥틦틧틨틩틪틫틬틭틮틯티틱틲틳틴틵틶틷틸틹틺틻틼틽틾틿" >>,
        << 54144, "펀펁펂펃펄펅펆펇펈펉펊펋펌펍펎펏펐펑펒펓펔펕펖펗페펙펚펛펜펝펞펟펠펡펢펣펤펥펦펧펨펩펪펫펬펭펮펯펰펱펲펳펴펵펶펷편펹펺펻펼펽펾펿폀폁폂폃폄폅폆폇폈평폊폋폌폍폎폏폐폑폒폓폔폕폖폗폘폙폚폛폜폝폞폟폠폡폢폣폤폥폦폧폨폩폪폫포폭폮폯폰폱폲폳폴폵폶폷폸폹폺폻폼폽폾폿" >>,
        << 54400, "풀풁풂풃풄풅풆풇품풉풊풋풌풍풎풏풐풑풒풓풔풕풖풗풘풙풚풛풜풝풞풟풠풡풢풣풤풥풦풧풨풩풪풫풬풭풮풯풰풱풲풳풴풵풶풷풸풹풺풻풼풽풾풿퓀퓁퓂퓃퓄퓅퓆퓇퓈퓉퓊퓋퓌퓍퓎퓏퓐퓑퓒퓓퓔퓕퓖퓗퓘퓙퓚퓛퓜퓝퓞퓟퓠퓡퓢퓣퓤퓥퓦퓧퓨퓩퓪퓫퓬퓭퓮퓯퓰퓱퓲퓳퓴퓵퓶퓷퓸퓹퓺퓻퓼퓽퓾퓿" >>,
        << 54656, "햀햁햂햃햄햅햆햇했행햊햋햌햍햎햏햐햑햒햓햔햕햖햗햘햙햚햛햜햝햞햟햠햡햢햣햤향햦햧햨햩햪햫햬햭햮햯햰햱햲햳햴햵햶햷햸햹햺햻햼햽햾햿헀헁헂헃헄헅헆헇허헉헊헋헌헍헎헏헐헑헒헓헔헕헖헗험헙헚헛헜헝헞헟헠헡헢헣헤헥헦헧헨헩헪헫헬헭헮헯헰헱헲헳헴헵헶헷헸헹헺헻헼헽헾헿" >>,
        << 54912, "횀횁횂횃횄횅횆횇횈횉횊횋회획횎횏횐횑횒횓횔횕횖횗횘횙횚횛횜횝횞횟횠횡횢횣횤횥횦횧효횩횪횫횬횭횮횯횰횱횲횳횴횵횶횷횸횹횺횻횼횽횾횿훀훁훂훃후훅훆훇훈훉훊훋훌훍훎훏훐훑훒훓훔훕훖훗훘훙훚훛훜훝훞훟훠훡훢훣훤훥훦훧훨훩훪훫훬훭훮훯훰훱훲훳훴훵훶훷훸훹훺훻훼훽훾훿" >>,
        << 55168, "힀힁힂힃힄힅힆힇히힉힊힋힌힍힎힏힐힑힒힓힔힕힖힗힘힙힚힛힜힝힞힟힠힡힢힣힤힥힦힧힨힩힪힫힬힭힮힯ힰힱힲힳힴힵힶힷힸힹힺힻힼힽힾힿퟀퟁퟂퟃퟄퟅퟆ퟇퟈퟉퟊ퟋퟌퟍퟎퟏퟐퟑퟒퟓퟔퟕퟖퟗퟘퟙퟚퟛퟜퟝퟞퟟퟠퟡퟢퟣퟤퟥퟦퟧퟨퟩퟪퟫퟬퟭퟮퟯퟰퟱퟲퟳퟴퟵퟶퟷퟸퟹퟺퟻ퟼퟽퟾퟿" >>,
        << 57472, "" >>,
        << 57728, "" >>,
        << 57984, "" >>,
        << 58240, "" >>,
        << 58496, "" >>,
        << 58752, "" >>,
        << 59008, "" >>,
        << 59264, "" >>,
        << 59520, "" >>,
        << 59776, "" >>,
        << 60032, "" >>,
        << 60288, "" >>,
        << 60544, "" >>,
        << 60800, "" >>,
        << 61056, "" >>,
        << 61312, "" >>,
        << 61568, "" >>,
        << 61824, "" >>,
        << 62080, "" >>,
        << 62336, "" >>,
        << 62592, "" >>,
        << 62848, "" >>,
        << 63104, "" >>,
        << 63360, "" >>,
        << 63616, "" >>,
        << 63872, "呂女廬旅濾礪閭驪麗黎力曆歷轢年憐戀撚漣煉璉秊練聯輦蓮連鍊列劣咽烈裂說廉念捻殮簾獵令囹寧嶺怜玲瑩羚聆鈴零靈領例禮醴隸惡了僚寮尿料樂燎療蓼遼龍暈阮劉杻柳流溜琉留硫紐類六戮陸倫崙淪輪律慄栗率隆利吏履易李梨泥理痢罹裏裡里離匿溺吝燐璘藺隣鱗麟林淋臨立笠粒狀炙識什茶刺" >>,
        << 64128, "婢嬨廒廙彩徭惘慎愈憎慠懲戴揄搜摒敖晴朗望杖歹殺流滛滋漢瀞煮瞧爵犯猪瑱甆画瘝瘟益盛直睊着磌窱節类絛練缾者荒華蝹襁覆視調諸請謁諾諭謹變贈輸遲醙鉶陼難靖韛響頋頻鬒龜𢡊𢡄𣏕㮝䀘䀹𥉉𥳐𧻓齃龎﫚﫛﫜﫝﫞﫟﫠﫡﫢﫣﫤﫥﫦﫧﫨﫩﫪﫫﫬﫭﫮﫯﫰﫱﫲﫳﫴﫵﫶﫷﫸﫹﫺﫻﫼﫽﫾﫿" >>,
        << 64384, "ﮀﮁﮂﮃﮄﮅﮆﮇﮈﮉﮊﮋﮌﮍﮎﮏﮐﮑﮒﮓﮔﮕﮖﮗﮘﮙﮚﮛﮜﮝﮞﮟﮠﮡﮢﮣﮤﮥﮦﮧﮨﮩﮪﮫﮬﮭﮮﮯﮰﮱ﮲﮳﮴﮵﮶﮷﮸﮹﮺﮻﮼﮽﮾﮿﯀﯁﯂﯃﯄﯅﯆﯇﯈﯉﯊﯋﯌﯍﯎﯏﯐﯑﯒ﯓﯔﯕﯖﯗﯘﯙﯚﯛﯜﯝﯞﯟﯠﯡﯢﯣﯤﯥﯦﯧﯨﯩﯪﯫﯬﯭﯮﯯﯰﯱﯲﯳﯴﯵﯶﯷﯸﯹﯺﯻﯼﯽﯾﯿ" >>,
        << 64640, "ﲀﲁﲂﲃﲄﲅﲆﲇﲈﲉﲊﲋﲌﲍﲎﲏﲐﲑﲒﲓﲔﲕﲖﲗﲘﲙﲚﲛﲜﲝﲞﲟﲠﲡﲢﲣﲤﲥﲦﲧﲨﲩﲪﲫﲬﲭﲮﲯﲰﲱﲲﲳﲴﲵﲶﲷﲸﲹﲺﲻﲼﲽﲾﲿﳀﳁﳂﳃﳄﳅﳆﳇﳈﳉﳊﳋﳌﳍﳎﳏﳐﳑﳒﳓﳔﳕﳖﳗﳘﳙﳚﳛﳜﳝﳞﳟﳠﳡﳢﳣﳤﳥﳦﳧﳨﳩﳪﳫﳬﳭﳮﳯﳰﳱﳲﳳﳴﳵﳶﳷﳸﳹﳺﳻﳼﳽﳾﳿ" >>,
        << 64896, "ﶀﶁﶂﶃﶄﶅﶆﶇﶈﶉﶊﶋﶌﶍﶎﶏ﶐﶑ﶒﶓﶔﶕﶖﶗﶘﶙﶚﶛﶜﶝﶞﶟﶠﶡﶢﶣﶤﶥﶦﶧﶨﶩﶪﶫﶬﶭﶮﶯﶰﶱﶲﶳﶴﶵﶶﶷﶸﶹﶺﶻﶼﶽﶾﶿﷀﷁﷂﷃﷄﷅﷆﷇ﷈﷉﷊﷋﷌﷍﷎﷏﷐﷑﷒﷓﷔﷕﷖﷗﷘﷙﷚﷛﷜﷝﷞﷟﷠﷡﷢﷣﷤﷥﷦﷧﷨﷩﷪﷫﷬﷭﷮﷯ﷰﷱﷲﷳﷴﷵﷶﷷﷸﷹﷺﷻ﷼﷽﷾﷿" >>,
        << 65152, "ﺀﺁﺂﺃﺄﺅﺆﺇﺈﺉﺊﺋﺌﺍﺎﺏﺐﺑﺒﺓﺔﺕﺖﺗﺘﺙﺚﺛﺜﺝﺞﺟﺠﺡﺢﺣﺤﺥﺦﺧﺨﺩﺪﺫﺬﺭﺮﺯﺰﺱﺲﺳﺴﺵﺶﺷﺸﺹﺺﺻﺼﺽﺾﺿﻀﻁﻂﻃﻄﻅﻆﻇﻈﻉﻊﻋﻌﻍﻎﻏﻐﻑﻒﻓﻔﻕﻖﻗﻘﻙﻚﻛﻜﻝﻞﻟﻠﻡﻢﻣﻤﻥﻦﻧﻨﻩﻪﻫﻬﻭﻮﻯﻰﻱﻲﻳﻴﻵﻶﻷﻸﻹﻺﻻﻼ﻽﻾﻿" >>,
        << 65408, "ﾀﾁﾂﾃﾄﾅﾆﾇﾈﾉﾊﾋﾌﾍﾎﾏﾐﾑﾒﾓﾔﾕﾖﾗﾘﾙﾚﾛﾜﾝﾞﾟﾠﾡﾢﾣﾤﾥﾦﾧﾨﾩﾪﾫﾬﾭﾮﾯﾰﾱﾲﾳﾴﾵﾶﾷﾸﾹﾺﾻﾼﾽﾾ﾿￀￁ￂￃￄￅￆￇ￈￉ￊￋￌￍￎￏ￐￑ￒￓￔￕￖￗ￘￙ￚￛￜ￝￞￟￠￡￢￣￤￥￦￧￨￩￪￫￬￭￮￯￰￱￲￳￴￵￶￷￸￹￺￻￼�￾￿" >> } }

\* ord(c) of each character c of the runs
CodeOf ==
  [c \in UNION {DOMAIN m : m \in CodeMaps} |->
     (CHOOSE m \in CodeMaps : c \in DOMAIN m)[c]]

\* the code points of the string written s
Codes(s) == Eval([k \in 1..Len(s) |-> CodeOf[CharAt(s, k)]])

\* the string of the code points codes
StrOf(codes) == [kind |-> "str", s |-> codes, n |-> 0]

Str(s) == StrOf(Codes(s))
Num(n) == [kind |-> "num", s |-> << >>, n |-> n]
NaN == [kind |-> "nan", s |-> << >>, n |-> 0]
None == [kind |-> "none", s |-> << >>, n |-> 0]

\* Python's truth value of a select-box result, as tested by `if <status>:`
Truthy(v) ==
  CASE v.kind = "none" -> FALSE
    [] v.kind = "str" -> v.s # << >>
    [] v.kind = "num" -> v.n # 0
    [] v.kind = "nan" -> TRUE

\* pandas' elementwise == of a column cell with a scalar: NaN equals nothing
PdEq(cell, v) ==
  IF cell.kind = "nan" \/ v.kind = "nan" THEN FALSE ELSE cell = v

(***************************************************************************)
(* The input file.  Record i of file d; the columns the pass reads.        *)
(***************************************************************************)
RawClaim(i, d) ==
  CASE d % 5 = 0 -> IF i <= 6 THEN i ELSE IF i <= 10 THEN 7 ELSE i - 3
    [] d % 5 = 1 -> IF i = 10 THEN 60 ELSE i
    [] d % 5 = 2 -> IF i = 1 \/ i = 12 THEN 40 ELSE 5
    [] d % 5 = 3 -> IF i = 9 THEN 5 ELSE IF i = 10 THEN 10 ELSE 1
    [] d % 5 = 4 -> IF i % 2 = 1 THEN 5 ELSE i

\* a file whose collision_type column is empty in every record
BlankFile == 5

\* record i of file d as pd.read_csv gives it: the numbers of the numeric
\* columns, and of a text column the string of the field, or the missing
\* value for a field the file leaves empty
RawRow(i, d) ==
  LET text ==
        [ insured_sex |-> IF i % 2 = 0 THEN "FEMALE"
                          ELSE IF d % 2 = 1 /\ i % 4 = 3 THEN "male"
                          ELSE "MALE",
          accident_type |-> IF i <= 10 THEN "Single Vehicle Collision"
                                       ELSE "Parked Car",
          collision_type |-> IF d = BlankFile THEN ""
                             ELSE IF i <= 9 THEN "Front Collision" ELSE "?",
          incident_severity |-> IF i % 4 = 1 THEN "Major Damage"
                                             ELSE "Minor Damage",
          authorities_contacted |-> CASE i % 3 = 0 -> ""
                                      [] i % 3 = 1 -> "Police"
                                      [] i % 3 = 2 -> "Fire",
          state |-> IF i <= (IF d % 5 = 2 THEN 1 ELSE 2) THEN "OH" ELSE "NY",
          property_damage |-> IF d % 2 = 1 /\ i % 4 = 0 THEN ""
                              ELSE IF i % 2 = 1 THEN "YES" ELSE "NO",
          police_report_available |-> IF i % 5 = 0 THEN "YES" ELSE "NO",
          auto_make |-> IF i <= 6 THEN "Saab" ELSE "Ford",
          auto_model |-> IF i <= 3 THEN "92x"
                         ELSE IF i <= 6 THEN "93" ELSE "F150" ]
  IN  [ total_claim_amount |-> RawClaim(i, d),
        age |-> 30 + (i % 3),
        bodily_injuries |-> Num(i % 3),
        auto_year |-> Num(1995 + (i % 2)) ]
      @@ [f \in DOMAIN text |-> IF text[f] = "" THEN NaN ELSE Str(text[f])]

\* the files of the specifications below, each read once
Files == Eval([k \in 1..(BlankFile + 1) |->
                 Eval([i \in 1..NumRows |-> RawRow(i, k - 1)])])

read_csv(d) == Files[d + 1]

(***************************************************************************)
(* preprocess_insurance_data                                               *)
(***************************************************************************)
\* The case tables of str.title() (CPython 3.11, Unicode 14.0), by code
\* point.
\*
\* the cased code points, listed as closed ranges
Cased ==
  LET ranges ==
        << << 65, 90 >>, << 97, 122 >>, << 170, 170 >>, << 181, 181 >>,
           << 186, 186 >>, << 192, 214 >>, << 216, 246 >>, << 248, 442 >>,
           << 444, 447 >>, << 452, 659 >>, << 661, 696 >>, << 704, 705 >>,
           << 736, 740 >>, << 837, 837 >>, << 880, 883 >>, << 886, 887 >>,
           << 890, 893 >>, << 895, 895 >>, << 902, 902 >>, << 904, 906 >>,
           << 908, 908 >>, << 910, 929 >>, << 931, 1013 >>, << 1015, 1153 >>,
           << 1162, 1327 >>, << 1329, 1366 >>, << 1376, 1416 >>,
           << 4256, 4293 >>, << 4295, 4295 >>, << 4301, 4301 >>,
           << 4304, 4346 >>, << 4349, 4351 >>, << 5024, 5109 >>,
           << 5112, 5117 >>, << 7296, 7304 >>, << 7312, 7354 >>,
           << 7357, 7359 >>, << 7424, 7615 >>, << 7680, 7957 >>,
           << 7960, 7965 >>, << 7968, 8005 >>, << 8008, 8013 >>,
           << 8016, 8023 >>, << 8025, 8025 >>, << 8027, 8027 >>,
           << 8029, 8029 >>, << 8031, 8061 >>, << 8064, 8116 >>,
           << 8118, 8124 >>, << 8126, 8126 >>, << 8130, 8132 >>,
           << 8134, 8140 >>, << 8144, 8147 >>, << 8150, 8155 >>,
           << 8160, 8172 >>, << 8178, 8180 >>, << 8182, 8188 >>,
           << 8305, 8305 >>, << 8319, 8319 >>, << 8336, 8348 >>,
           << 8450, 8450 >>, << 8455, 8455 >>, << 8458, 8467 >>,
           << 8469, 8469 >>, << 8473, 8477 >>, << 8484, 8484 >>,
           << 8486, 8486 >>, << 8488, 8488 >>, << 8490, 8493 >>,
           << 8495, 8500 >>, << 8505, 8505 >>, << 8508, 8511 >>,
           << 8517, 8521 >>, << 8526, 8526 >>, << 8544, 8575 >>,
           << 8579, 8580 >>, << 9398, 9449 >>, << 11264, 11492 >>,
           << 11499, 11502 >>, << 11506, 11507 >>, << 11520, 11557 >>,
           << 11559, 11559 >>, << 11565, 11565 >>, << 42560, 42605 >>,
           << 42624, 42653 >>, << 42786, 42887 >>, << 42891, 42894 >>,
           << 42896, 42954 >>, << 42960, 42961 >>, << 42963, 42963 >>,
           << 42965, 42969 >>, << 42997, 42998 >>, << 43000, 43002 >>,
           << 43824, 43866 >>, << 43868, 43880 >>, << 43888, 43967 >>,
           << 64256, 64262 >>, << 64275, 64279 >>, << 65313, 65338 >>,
           << 65345, 65370 >>, << 66560, 66639 >>, << 66736, 66771 >>,
           << 66776, 66811 >>, << 66928, 66938 >>, << 66940, 66954 >>,
           << 66956, 66962 >>, << 66964, 66965 >>, << 66967, 66977 >>,
           << 66979, 66993 >>, << 66995, 67001 >>, << 67003, 67004 >>,
           << 67456, 67456 >>, << 67459, 67461 >>, << 67463, 67504 >>,
           << 67506, 67514 >>, << 68736, 68786 >>, << 68800, 68850 >>,
           << 71840, 71903 >>, << 93760, 93823 >>, << 119808, 119892 >>,
           << 119894, 119964 >>, << 119966, 119967 >>, << 119970, 119970 >>,
           << 119973, 119974 >>, << 119977, 119980 >>, << 119982, 119993 >>,
           << 119995, 119995 >>, << 119997, 120003 >>, << 120005, 120069 >>,
           << 120071, 120074 >>, << 120077, 120084 >>, << 120086, 120092 >>,
           << 120094, 120121 >>, << 120123, 120126 >>, << 120128, 120132 >>,
           << 120134, 120134 >>, << 120138, 120144 >>, << 120146, 120485 >>,
           << 120488, 120512 >>, << 120514, 120538 >>, << 120540, 120570 >>,
           << 120572, 120596 >>, << 120598, 120628 >>, << 120630, 120654 >>,
           << 120656, 120686 >>, << 120688, 120712 >>, << 120714, 120744 >>,
           << 120746, 120770 >>, << 120772, 120779 >>, << 122624, 122633 >>,
           << 122635, 122654 >>, << 125184, 125251 >>, << 127280, 127305 >>,
           << 127312, 127337 >>, << 127344, 127369 >> >>
  IN  UNION {ranges[k][1]..ranges[k][2] : k \in 1..Len(ranges)}

\* the case-ignorable code points, listed as closed ranges
CaseIgnorable ==
  LET ranges ==
        << << 39, 39 >>, << 46, 46 >>, << 58, 58 >>, << 94, 94 >>,
           << 96, 96 >>, << 168, 168 >>, << 173, 173 >>, << 175, 175 >>,
           << 180, 180 >>, << 183, 184 >>, << 688, 879 >>, << 884, 885 >>,
           << 890, 890 >>, << 900, 901 >>, << 903, 903 >>, << 1155, 1161 >>,
           << 1369, 1369 >>, << 1375, 1375 >>, << 1425, 1469 >>,
           << 1471, 1471 >>, << 1473, 1474 >>, << 1476, 1477 >>,
           << 1479, 1479 >>, << 1524, 1524 >>, << 1536, 1541 >>,
           << 1552, 1562 >>, << 1564, 1564 >>, << 1600, 1600 >>,
           << 1611, 1631 >>, << 1648, 1648 >>, << 1750, 1757 >>,
           << 1759, 1768 >>, << 1770, 1773 >>, << 1807, 1807 >>,
           << 1809, 1809 >>, << 1840, 1866 >>, << 1958, 1968 >>,
           << 2027, 2037 >>, << 2042, 2042 >>, << 2045, 2045 >>,
           << 2070, 2093 >>, << 2137, 2139 >>, << 2184, 2184 >>,
           << 2192, 2193 >>, << 2200, 2207 >>, << 2249, 2306 >>,
           << 2362, 2362 >>, << 2364, 2364 >>, << 2369, 2376 >>,
           << 2381, 2381 >>, << 2385, 2391 >>, << 2402, 2403 >>,
           << 2417, 2417 >>, << 2433, 2433 >>, << 2492, 2492 >>,
           << 2497, 2500 >>, << 2509, 2509 >>, << 2530, 2531 >>,
           << 2558, 2558 >>, << 2561, 2562 >>, << 2620, 2620 >>,
           << 2625, 2626 >>, << 2631, 2632 >>, << 2635, 2637 >>,
           << 2641, 2641 >>, << 2672, 2673 >>, << 2677, 2677 >>,
           << 2689, 2690 >>, << 2748, 2748 >>, << 2753, 2757 >>,
           << 2759, 2760 >>, << 2765, 2765 >>, << 2786, 2787 >>,
           << 2810, 2815 >>, << 2817, 2817 >>, << 2876, 2876 >>,
           << 2879, 2879 >>, << 2881, 2884 >>, << 2893, 2893 >>,
           << 2901, 2902 >>, << 2914, 2915 >>, << 2946, 2946 >>,
           << 3008, 3008 >>, << 3021, 3021 >>, << 3072, 3072 >>,
           << 3076, 3076 >>, << 3132, 3132 >>, << 3134, 3136 >>,
           << 3142, 3144 >>, << 3146, 3149 >>, << 3157, 3158 >>,
           << 3170, 3171 >>, << 3201, 3201 >>, << 3260, 3260 >>,
           << 3263, 3263 >>, << 3270, 3270 >>, << 3276, 3277 >>,
           << 3298, 3299 >>, << 3328, 3329 >>, << 3387, 3388 >>,
           << 3393, 3396 >>, << 3405, 3405 >>, << 3426, 3427 >>,
           << 3457, 3457 >>, << 3530, 3530 >>, << 3538, 3540 >>,
           << 3542, 3542 >>, << 3633, 3633 >>, << 3636, 3642 >>,
           << 3654, 3662 >>, << 3761, 3761 >>, << 3764, 3772 >>,
           << 3782, 3782 >>, << 3784, 3789 >>, << 3864, 3865 >>,
           << 3893, 3893 >>, << 3895, 3895 >>, << 3897, 3897 >>,
           << 3953, 3966 >>, << 3968, 3972 >>, << 3974, 3975 >>,
           << 3981, 3991 >>, << 3993, 4028 >>, << 4038, 4038 >>,
           << 4141, 4144 >>, << 4146, 4151 >>, << 4153, 4154 >>,
           << 4157, 4158 >>, << 4184, 4185 >>, << 4190, 4192 >>,
           << 4209, 4212 >>, << 4226, 4226 >>, << 4229, 4230 >>,
           << 4237, 4237 >>, << 4253, 4253 >>, << 4348, 4348 >>,
           << 4957, 4959 >>, << 5906, 5908 >>, << 5938, 5939 >>,
           << 5970, 5971 >>, << 6002, 6003 >>, << 6068, 6069 >>,
           << 6071, 6077 >>, << 6086, 6086 >>, << 6089, 6099 >>,
           << 6103, 6103 >>, << 6109, 6109 >>, << 6155, 6159 >>,
           << 6211, 6211 >>, << 6277, 6278 >>, << 6313, 6313 >>,
           << 6432, 6434 >>, << 6439, 6440 >>, << 6450, 6450 >>,
           << 6457, 6459 >>, << 6679, 6680 >>, << 6683, 6683 >>,
           << 6742, 6742 >>, << 6744, 6750 >>, << 6752, 6752 >>,
           << 6754, 6754 >>, << 6757, 6764 >>, << 6771, 6780 >>,
           << 6783, 6783 >>, << 6823, 6823 >>, << 6832, 6862 >>,
           << 6912, 6915 >>, << 6964, 6964 >>, << 6966, 6970 >>,
           << 6972, 6972 >>, << 6978, 6978 >>, << 7019, 7027 >>,
           << 7040, 7041 >>, << 7074, 7077 >>, << 7080, 7081 >>,
           << 7083, 7085 >>, << 7142, 7142 >>, << 7144, 7145 >>,
           << 7149, 7149 >>, << 7151, 7153 >>, << 7212, 7219 >>,
           << 7222, 7223 >>, << 7288, 7293 >>, << 7376, 7378 >>,
           << 7380, 7392 >>, << 7394, 7400 >>, << 7405, 7405 >>,
           << 7412, 7412 >>, << 7416, 7417 >>, << 7468, 7530 >>,
           << 7544, 7544 >>, << 7579, 7679 >>, << 8125, 8125 >>,
           << 8127, 8129 >>, << 8141, 8143 >>, << 8157, 8159 >>,
           << 8173, 8175 >>, << 8189, 8190 >>, << 8203, 8207 >>,
           << 8216, 8217 >>, << 8228, 8228 >>, << 8231, 8231 >>,
           << 8234, 8238 >>, << 8288, 8292 >>, << 8294, 8303 >>,
           << 8305, 8305 >>, << 8319, 8319 >>, << 8336, 8348 >>,
           << 8400, 8432 >>, << 11388, 11389 >>, << 11503, 11505 >>,
           << 11631, 11631 >>, << 11647, 11647 >>, << 11744, 11775 >>,
           << 11823, 11823 >>, << 12293, 12293 >>, << 12330, 12333 >>,
           << 12337, 12341 >>, << 12347, 12347 >>, << 12441, 12446 >>,
           << 12540, 12542 >>, << 40981, 40981 >>, << 42232, 42237 >>,
           << 42508, 42508 >>, << 42607, 42610 >>, << 42612, 42621 >>,
           << 42623, 42623 >>, << 42652, 42655 >>, << 42736, 42737 >>,
           << 42752, 42785 >>, << 42864, 42864 >>, << 42888, 42890 >>,
           << 42994, 42996 >>, << 43000, 43001 >>, << 43010, 43010 >>,
           << 43014, 43014 >>, << 43019, 43019 >>, << 43045, 43046 >>,
           << 43052, 43052 >>, << 43204, 43205 >>, << 43232, 43249 >>,
           << 43263, 43263 >>, << 43302, 43309 >>, << 43335, 43345 >>,
           << 43392, 43394 >>, << 43443, 43443 >>, << 43446, 43449 >>,
           << 43452, 43453 >>, << 43471, 43471 >>, << 43493, 43494 >>,
           << 43561, 43566 >>, << 43569, 43570 >>, << 43573, 43574 >>,
           << 43587, 43587 >>, << 43596, 43596 >>, << 43632, 43632 >>,
           << 43644, 43644 >>, << 43696, 43696 >>, << 43698, 43700 >>,
           << 43703, 43704 >>, << 43710, 43711 >>, << 43713, 43713 >>,
           << 43741, 43741 >>, << 43756, 43757 >>, << 43763, 43764 >>,
           << 43766, 43766 >>, << 43867, 43871 >>, << 43881, 43883 >>,
           << 44005, 44005 >>, << 44008, 44008 >>, << 44013, 44013 >>,
           << 64286, 64286 >>, << 64434, 64450 >>, << 65024, 65039 >>,
           << 65043, 65043 >>, << 65056, 65071 >>, << 65106, 65106 >>,
           << 65109, 65109 >>, << 65279, 65279 >>, << 65287, 65287 >>,
           << 65294, 65294 >>, << 65306, 65306 >>, << 65342, 65342 >>,
           << 65344, 65344 >>, << 65392, 65392 >>, << 65438, 65439 >>,
           << 65507, 65507 >>, << 65529, 65531 >>, << 66045, 66045 >>,
           << 66272, 66272 >>, << 66422, 66426 >>, << 67456, 67461 >>,
           << 67463, 67504 >>, << 67506, 67514 >>, << 68097, 68099 >>,
           << 68101, 68102 >>, << 68108, 68111 >>, << 68152, 68154 >>,
           << 68159, 68159 >>, << 68325, 68326 >>, << 68900, 68903 >>,
           << 69291, 69292 >>, << 69446, 69456 >>, << 69506, 69509 >>,
           << 69633, 69633 >>, << 69688, 69702 >>, << 69744, 69744 >>,
           << 69747, 69748 >>, << 69759, 69761 >>, << 69811, 69814 >>,
           << 69817, 69818 >>, << 69821, 69821 >>, << 69826, 69826 >>,
           << 69837, 69837 >>, << 69888, 69890 >>, << 69927, 69931 >>,
           << 69933, 69940 >>, << 70003, 70003 >>, << 70016, 70017 >>,
           << 70070, 70078 >>, << 70089, 70092 >>, << 70095, 70095 >>,
           << 70191, 70193 >>, << 70196, 70196 >>, << 70198, 70199 >>,
           << 70206, 70206 >>, << 70367, 70367 >>, << 70371, 70378 >>,
           << 70400, 70401 >>, << 70459, 70460 >>, << 70464, 70464 >>,
           << 70502, 70508 >>, << 70512, 70516 >>, << 70712, 70719 >>,
           << 70722, 70724 >>, << 70726, 70726 >>, << 70750, 70750 >>,
           << 70835, 70840 >>, << 70842, 70842 >>, << 70847, 70848 >>,
           << 70850, 70851 >>, << 71090, 71093 >>, << 71100, 71101 >>,
           << 71103, 71104 >>, << 71132, 71133 >>, << 71219, 71226 >>,
           << 71229, 71229 >>, << 71231, 71232 >>, << 71339, 71339 >>,
           << 71341, 71341 >>, << 71344, 71349 >>, << 71351, 71351 >>,
           << 71453, 71455 >>, << 71458, 71461 >>, << 71463, 71467 >>,
           << 71727, 71735 >>, << 71737, 71738 >>, << 71995, 71996 >>,
           << 71998, 71998 >>, << 72003, 72003 >>, << 72148, 72151 >>,
           << 72154, 72155 >>, << 72160, 72160 >>, << 72193, 72202 >>,
           << 72243, 72248 >>, << 72251, 72254 >>, << 72263, 72263 >>,
           << 72273, 72278 >>, << 72281, 72283 >>, << 72330, 72342 >>,
           << 72344, 72345 >>, << 72752, 72758 >>, << 72760, 72765 >>,
           << 72767, 72767 >>, << 72850, 72871 >>, << 72874, 72880 >>,
           << 72882, 72883 >>, << 72885, 72886 >>, << 73009, 73014 >>,
           << 73018, 73018 >>, << 73020, 73021 >>, << 73023, 73029 >>,
           << 73031, 73031 >>, << 73104, 73105 >>, << 73109, 73109 >>,
           << 73111, 73111 >>, << 73459, 73460 >>, << 78896, 78904 >>,
           << 92912, 92916 >>, << 92976, 92982 >>, << 92992, 92995 >>,
           << 94031, 94031 >>, << 94095, 94111 >>, << 94176, 94177 >>,
           << 94179, 94180 >>, << 110576, 110579 >>, << 110581, 110587 >>,
           << 110589, 110590 >>, << 113821, 113822 >>, << 113824, 113827 >>,
           << 118528, 118573 >>, << 118576, 118598 >>, << 119143, 119145 >>,
           << 119155, 119170 >>, << 119173, 119179 >>, << 119210, 119213 >>,
           << 119362, 119364 >>, << 121344, 121398 >>, << 121403, 121452 >>,
           << 121461, 121461 >>, << 121476, 121476 >>, << 121499, 121503 >>,
           << 121505, 121519 >>, << 122880, 122886 >>, << 122888, 122904 >>,
           << 122907, 122913 >>, << 122915, 122916 >>, << 122918, 122922 >>,
           << 123184, 123197 >>, << 123566, 123566 >>, << 123628, 123631 >>,
           << 125136, 125142 >>, << 125252, 125259 >>, << 127995, 127999 >>,
           << 917505, 917505 >>, << 917536, 917631 >>, << 917760, 917999 >> >>
  IN  UNION {ranges[k][1]..ranges[k][2] : k \in 1..Len(ranges)}

\* the case mapping a table of steps describes: an entry << a, b, step, d >>
\* says that the case of each of a, a + step, ..., b is the code point d
\* further on
CaseMap(steps) ==
  [c \in UNION {{steps[k][1] + j * steps[k][3] :
                  j \in 0..((steps[k][2] - steps[k][1]) \div steps[k][3])} :
                k \in 1..Len(steps)} |->
     << c + steps[CHOOSE k \in 1..Len(steps) :
                    /\ steps[k][1] <= c
                    /\ c <= steps[k][2]
                    /\ (c - steps[k][1]) % steps[k][3] = 0][4] >>]

\* the lower case of each code point that is not its own lower case: the one
\* that is longer than one code point, then the others in steps
LowerOf ==
  (304 :> << 105, 775 >>)
  @@ CaseMap(
       << << 65, 90, 1, 32 >>, << 192, 214, 1, 32 >>, << 216, 222, 1, 32 >>,
          << 256, 302, 2, 1 >>, << 306, 310, 2, 1 >>, << 313, 327, 2, 1 >>,
          << 330, 374, 2, 1 >>, << 376, 376, 1, -121 >>, << 377, 381, 2, 1 >>,
          << 385, 385, 1, 210 >>, << 386, 388, 2, 1 >>, << 390, 390, 1, 206 >>,
          << 391, 391, 1, 1 >>, << 393, 394, 1, 205 >>, << 395, 395, 1, 1 >>,
          << 398, 398, 1, 79 >>, << 399, 399, 1, 202 >>,
          << 400, 400, 1, 203 >>, << 401, 401, 1, 1 >>, << 403, 403, 1, 205 >>,
          << 404, 404, 1, 207 >>, << 406, 406, 1, 211 >>,
          << 407, 407, 1, 209 >>, << 408, 408, 1, 1 >>, << 412, 412, 1, 211 >>,
          << 413, 413, 1, 213 >>, << 415, 415, 1, 214 >>, << 416, 420, 2, 1 >>,
          << 422, 422, 1, 218 >>, << 423, 423, 1, 1 >>, << 425, 425, 1, 218 >>,
          << 428, 428, 1, 1 >>, << 430, 430, 1, 218 >>, << 431, 431, 1, 1 >>,
          << 433, 434, 1, 217 >>, << 435, 437, 2, 1 >>, << 439, 439, 1, 219 >>,
          << 440, 440, 1, 1 >>, << 444, 444, 1, 1 >>, << 452, 452, 1, 2 >>,
          << 453, 453, 1, 1 >>, << 455, 455, 1, 2 >>, << 456, 456, 1, 1 >>,
          << 458, 458, 1, 2 >>, << 459, 475, 2, 1 >>, << 478, 494, 2, 1 >>,
          << 497, 497, 1, 2 >>, << 498, 500, 2, 1 >>, << 502, 502, 1, -97 >>,
          << 503, 503, 1, -56 >>, << 504, 542, 2, 1 >>,
          << 544, 544, 1, -130 >>, << 546, 562, 2, 1 >>,
          << 570, 570, 1, 10795 >>, << 571, 571, 1, 1 >>,
          << 573, 573, 1, -163 >>, << 574, 574, 1, 10792 >>,
          << 577, 577, 1, 1 >>, << 579, 579, 1, -195 >>, << 580, 580, 1, 69 >>,
          << 581, 581, 1, 71 >>, << 582, 590, 2, 1 >>, << 880, 882, 2, 1 >>,
          << 886, 886, 1, 1 >>, << 895, 895, 1, 116 >>, << 902, 902, 1, 38 >>,
          << 904, 906, 1, 37 >>, << 908, 908, 1, 64 >>, << 910, 911, 1, 63 >>,
          << 913, 929, 1, 32 >>, << 932, 939, 1, 32 >>, << 975, 975, 1, 8 >>,
          << 984, 1006, 2, 1 >>, << 1012, 1012, 1, -60 >>,
          << 1015, 1015, 1, 1 >>, << 1017, 1017, 1, -7 >>,
          << 1018, 1018, 1, 1 >>, << 1021, 1023, 1, -130 >>,
          << 1024, 1039, 1, 80 >>, << 1040, 1071, 1, 32 >>,
          << 1120, 1152, 2, 1 >>, << 1162, 1214, 2, 1 >>,
          << 1216, 1216, 1, 15 >>, << 1217, 1229, 2, 1 >>,
          << 1232, 1326, 2, 1 >>, << 1329, 1366, 1, 48 >>,
          << 4256, 4293, 1, 7264 >>, << 4295, 4295, 1, 7264 >>,
          << 4301, 4301, 1, 7264 >>, << 5024, 5103, 1, 38864 >>,
          << 5104, 5109, 1, 8 >>, << 7312, 7354, 1, -3008 >>,
          << 7357, 7359, 1, -3008 >>, << 7680, 7828, 2, 1 >>,
          << 7838, 7838, 1, -7615 >>, << 7840, 7934, 2, 1 >>,
          << 7944, 7951, 1, -8 >>, << 7960, 7965, 1, -8 >>,
          << 7976, 7983, 1, -8 >>, << 7992, 7999, 1, -8 >>,
          << 8008, 8013, 1, -8 >>, << 8025, 8031, 2, -8 >>,
          << 8040, 8047, 1, -8 >>, << 8072, 8079, 1, -8 >>,
          << 8088, 8095, 1, -8 >>, << 8104, 8111, 1, -8 >>,
          << 8120, 8121, 1, -8 >>, << 8122, 8123, 1, -74 >>,
          << 8124, 8124, 1, -9 >>, << 8136, 8139, 1, -86 >>,
          << 8140, 8140, 1, -9 >>, << 8152, 8153, 1, -8 >>,
          << 8154, 8155, 1, -100 >>, << 8168, 8169, 1, -8 >>,
          << 8170, 8171, 1, -112 >>, << 8172, 8172, 1, -7 >>,
          << 8184, 8185, 1, -128 >>, << 8186, 8187, 1, -126 >>,
          << 8188, 8188, 1, -9 >>, << 8486, 8486, 1, -7517 >>,
          << 8490, 8490, 1, -8383 >>, << 8491, 8491, 1, -8262 >>,
          << 8498, 8498, 1, 28 >>, << 8544, 8559, 1, 16 >>,
          << 8579, 8579, 1, 1 >>, << 9398, 9423, 1, 26 >>,
          << 11264, 11311, 1, 48 >>, << 11360, 11360, 1, 1 >>,
          << 11362, 11362, 1, -10743 >>, << 11363, 11363, 1, -3814 >>,
          << 11364, 11364, 1, -10727 >>, << 11367, 11371, 2, 1 >>,
          << 11373, 11373, 1, -10780 >>, << 11374, 11374, 1, -10749 >>,
          << 11375, 11375, 1, -10783 >>, << 11376, 11376, 1, -10782 >>,
          << 11378, 11378, 1, 1 >>, << 11381, 11381, 1, 1 >>,
          << 11390, 11391, 1, -10815 >>, << 11392, 11490, 2, 1 >>,
          << 11499, 11501, 2, 1 >>, << 11506, 11506, 1, 1 >>,
          << 42560, 42604, 2, 1 >>, << 42624, 42650, 2, 1 >>,
          << 42786, 42798, 2, 1 >>, << 42802, 42862, 2, 1 >>,
          << 42873, 42875, 2, 1 >>, << 42877, 42877, 1, -35332 >>,
          << 42878, 42886, 2, 1 >>, << 42891, 42891, 1, 1 >>,
          << 42893, 42893, 1, -42280 >>, << 42896, 42898, 2, 1 >>,
          << 42902, 42920, 2, 1 >>, << 42922, 42922, 1, -42308 >>,
          << 42923, 42923, 1, -42319 >>, << 42924, 42924, 1, -42315 >>,
          << 42925, 42925, 1, -42305 >>, << 42926, 42926, 1, -42308 >>,
          << 42928, 42928, 1, -42258 >>, << 42929, 42929, 1, -42282 >>,
          << 42930, 42930, 1, -42261 >>, << 42931, 42931, 1, 928 >>,
          << 42932, 42946, 2, 1 >>, << 42948, 42948, 1, -48 >>,
          << 42949, 42949, 1, -42307 >>, << 42950, 42950, 1, -35384 >>,
          << 42951, 42953, 2, 1 >>, << 42960, 42960, 1, 1 >>,
          << 42966, 42968, 2, 1 >>, << 42997, 42997, 1, 1 >>,
          << 65313, 65338, 1, 32 >>, << 66560, 66599, 1, 40 >>,
          << 66736, 66771, 1, 40 >>, << 66928, 66964, 2, 39 >>,
          << 66929, 66937, 2, 39 >>, << 66941, 66953, 2, 39 >>,
          << 66957, 66961, 2, 39 >>, << 66965, 66965, 1, 39 >>,
          << 68736, 68786, 1, 64 >>, << 71840, 71871, 1, 32 >>,
          << 93760, 93791, 1, 32 >>, << 125184, 125217, 1, 34 >> >>)

\* the title case of each code point that is not its own title case: those
\* that are longer than one code point, then the others in steps
TitleOf ==
  (223 :> << 83, 115 >>) @@ (329 :> << 700, 78 >>)
  @@ (496 :> << 74, 780 >>) @@ (912 :> << 921, 776, 769 >>)
  @@ (944 :> << 933, 776, 769 >>) @@ (1415 :> << 1333, 1410 >>)
  @@ (7830 :> << 72, 817 >>) @@ (7831 :> << 84, 776 >>)
  @@ (7832 :> << 87, 778 >>) @@ (7833 :> << 89, 778 >>)
  @@ (7834 :> << 65, 702 >>) @@ (8016 :> << 933, 787 >>)
  @@ (8018 :> << 933, 787, 768 >>) @@ (8020 :> << 933, 787, 769 >>)
  @@ (8022 :> << 933, 787, 834 >>) @@ (8114 :> << 8122, 837 >>)
  @@ (8116 :> << 902, 837 >>) @@ (8118 :> << 913, 834 >>)
  @@ (8119 :> << 913, 834, 837 >>) @@ (8130 :> << 8138, 837 >>)
  @@ (8132 :> << 905, 837 >>) @@ (8134 :> << 919, 834 >>)
  @@ (8135 :> << 919, 834, 837 >>) @@ (8146 :> << 921, 776, 768 >>)
  @@ (8147 :> << 921, 776, 769 >>) @@ (8150 :> << 921, 834 >>)
  @@ (8151 :> << 921, 776, 834 >>) @@ (8162 :> << 933, 776, 768 >>)
  @@ (8163 :> << 933, 776, 769 >>) @@ (8164 :> << 929, 787 >>)
  @@ (8166 :> << 933, 834 >>) @@ (8167 :> << 933, 776, 834 >>)
  @@ (8178 :> << 8186, 837 >>) @@ (8180 :> << 911, 837 >>)
  @@ (8182 :> << 937, 834 >>) @@ (8183 :> << 937, 834, 837 >>)
  @@ (64256 :> << 70, 102 >>) @@ (64257 :> << 70, 105 >>)
  @@ (64258 :> << 70, 108 >>) @@ (64259 :> << 70, 102, 105 >>)
  @@ (64260 :> << 70, 102, 108 >>) @@ (64261 :> << 83, 116 >>)
  @@ (64262 :> << 83, 116 >>) @@ (64275 :> << 1348, 1398 >>)
  @@ (64276 :> << 1348, 1381 >>) @@ (64277 :> << 1348, 1387 >>)
  @@ (64278 :> << 1358, 1398 >>) @@ (64279 :> << 1348, 1389 >>)
  @@ CaseMap(
       << << 97, 122, 1, -32 >>, << 181, 181, 1, 743 >>,
          << 224, 246, 1, -32 >>, << 248, 254, 1, -32 >>,
          << 255, 255, 1, 121 >>, << 257, 303, 2, -1 >>,
          << 305, 305, 1, -232 >>, << 307, 311, 2, -1 >>,
          << 314, 328, 2, -1 >>, << 331, 375, 2, -1 >>, << 378, 382, 2, -1 >>,
          << 383, 383, 1, -300 >>, << 384, 384, 1, 195 >>,
          << 387, 389, 2, -1 >>, << 392, 392, 1, -1 >>, << 396, 396, 1, -1 >>,
          << 402, 402, 1, -1 >>, << 405, 405, 1, 97 >>, << 409, 409, 1, -1 >>,
          << 410, 410, 1, 163 >>, << 414, 414, 1, 130 >>,
          << 417, 421, 2, -1 >>, << 424, 424, 1, -1 >>, << 429, 429, 1, -1 >>,
          << 432, 432, 1, -1 >>, << 436, 438, 2, -1 >>, << 441, 441, 1, -1 >>,
          << 445, 445, 1, -1 >>, << 447, 447, 1, 56 >>, << 452, 452, 1, 1 >>,
          << 454, 454, 1, -1 >>, << 455, 455, 1, 1 >>, << 457, 457, 1, -1 >>,
          << 458, 458, 1, 1 >>, << 460, 476, 2, -1 >>, << 477, 477, 1, -79 >>,
          << 479, 495, 2, -1 >>, << 497, 497, 1, 1 >>, << 499, 501, 2, -1 >>,
          << 505, 543, 2, -1 >>, << 547, 563, 2, -1 >>, << 572, 572, 1, -1 >>,
          << 575, 576, 1, 10815 >>, << 578, 578, 1, -1 >>,
          << 583, 591, 2, -1 >>, << 592, 592, 1, 10783 >>,
          << 593, 593, 1, 10780 >>, << 594, 594, 1, 10782 >>,
          << 595, 595, 1, -210 >>, << 596, 596, 1, -206 >>,
          << 598, 599, 1, -205 >>, << 601, 601, 1, -202 >>,
          << 603, 603, 1, -203 >>, << 604, 604, 1, 42319 >>,
          << 608, 608, 1, -205 >>, << 609, 609, 1, 42315 >>,
          << 611, 611, 1, -207 >>, << 613, 613, 1, 42280 >>,
          << 614, 614, 1, 42308 >>, << 616, 616, 1, -209 >>,
          << 617, 617, 1, -211 >>, << 618, 618, 1, 42308 >>,
          << 619, 619, 1, 10743 >>, << 620, 620, 1, 42305 >>,
          << 623, 623, 1, -211 >>, << 625, 625, 1, 10749 >>,
          << 626, 626, 1, -213 >>, << 629, 629, 1, -214 >>,
          << 637, 637, 1, 10727 >>, << 640, 640, 1, -218 >>,
          << 642, 642, 1, 42307 >>, << 643, 643, 1, -218 >>,
          << 647, 647, 1, 42282 >>, << 648, 648, 1, -218 >>,
          << 649, 649, 1, -69 >>, << 650, 651, 1, -217 >>,
          << 652, 652, 1, -71 >>, << 658, 658, 1, -219 >>,
          << 669, 669, 1, 42261 >>, << 670, 670, 1, 42258 >>,
          << 837, 837, 1, 84 >>, << 881, 883, 2, -1 >>, << 887, 887, 1, -1 >>,
          << 891, 893, 1, 130 >>, << 940, 940, 1, -38 >>,
          << 941, 943, 1, -37 >>, << 945, 961, 1, -32 >>,
          << 962, 962, 1, -31 >>, << 963, 971, 1, -32 >>,
          << 972, 972, 1, -64 >>, << 973, 974, 1, -63 >>,
          << 976, 976, 1, -62 >>, << 977, 977, 1, -57 >>,
          << 981, 981, 1, -47 >>, << 982, 982, 1, -54 >>,
          << 983, 983, 1, -8 >>, << 985, 1007, 2, -1 >>,
          << 1008, 1008, 1, -86 >>, << 1009, 1009, 1, -80 >>,
          << 1010, 1010, 1, 7 >>, << 1011, 1011, 1, -116 >>,
          << 1013, 1013, 1, -96 >>, << 1016, 1016, 1, -1 >>,
          << 1019, 1019, 1, -1 >>, << 1072, 1103, 1, -32 >>,
          << 1104, 1119, 1, -80 >>, << 1121, 1153, 2, -1 >>,
          << 1163, 1215, 2, -1 >>, << 1218, 1230, 2, -1 >>,
          << 1231, 1231, 1, -15 >>, << 1233, 1327, 2, -1 >>,
          << 1377, 1414, 1, -48 >>, << 5112, 5117, 1, -8 >>,
          << 7296, 7296, 1, -6254 >>, << 7297, 7297, 1, -6253 >>,
          << 7298, 7298, 1, -6244 >>, << 7299, 7300, 1, -6242 >>,
          << 7301, 7301, 1, -6243 >>, << 7302, 7302, 1, -6236 >>,
          << 7303, 7303, 1, -6181 >>, << 7304, 7304, 1, 35266 >>,
          << 7545, 7545, 1, 35332 >>, << 7549, 7549, 1, 3814 >>,
          << 7566, 7566, 1, 35384 >>, << 7681, 7829, 2, -1 >>,
          << 7835, 7835, 1, -59 >>, << 7841, 7935, 2, -1 >>,
          << 7936, 7943, 1, 8 >>, << 7952, 7957, 1, 8 >>,
          << 7968, 7975, 1, 8 >>, << 7984, 7991, 1, 8 >>,
          << 8000, 8005, 1, 8 >>, << 8017, 8023, 2, 8 >>,
          << 8032, 8039, 1, 8 >>, << 8048, 8049, 1, 74 >>,
          << 8050, 8053, 1, 86 >>, << 8054, 8055, 1, 100 >>,
          << 8056, 8057, 1, 128 >>, << 8058, 8059, 1, 112 >>,
          << 8060, 8061, 1, 126 >>, << 8064, 8071, 1, 8 >>,
          << 8080, 8087, 1, 8 >>, << 8096, 8103, 1, 8 >>,
          << 8112, 8113, 1, 8 >>, << 8115, 8115, 1, 9 >>,
          << 8126, 8126, 1, -7205 >>, << 8131, 8131, 1, 9 >>,
          << 8144, 8145, 1, 8 >>, << 8160, 8161, 1, 8 >>,
          << 8165, 8165, 1, 7 >>, << 8179, 8179, 1, 9 >>,
          << 8526, 8526, 1, -28 >>, << 8560, 8575, 1, -16 >>,
          << 8580, 8580, 1, -1 >>, << 9424, 9449, 1, -26 >>,
          << 11312, 11359, 1, -48 >>, << 11361, 11361, 1, -1 >>,
          << 11365, 11365, 1, -10795 >>, << 11366, 11366, 1, -10792 >>,
          << 11368, 11372, 2, -1 >>, << 11379, 11379, 1, -1 >>,
          << 11382, 11382, 1, -1 >>, << 11393, 11491, 2, -1 >>,
          << 11500, 11502, 2, -1 >>, << 11507, 11507, 1, -1 >>,
          << 11520, 11557, 1, -7264 >>, << 11559, 11559, 1, -7264 >>,
          << 11565, 11565, 1, -7264 >>, << 42561, 42605, 2, -1 >>,
          << 42625, 42651, 2, -1 >>, << 42787, 42799, 2, -1 >>,
          << 42803, 42863, 2, -1 >>, << 42874, 42876, 2, -1 >>,
          << 42879, 42887, 2, -1 >>, << 42892, 42892, 1, -1 >>,
          << 42897, 42899, 2, -1 >>, << 42900, 42900, 1, 48 >>,
          << 42903, 42921, 2, -1 >>, << 42933, 42947, 2, -1 >>,
          << 42952, 42954, 2, -1 >>, << 42961, 42961, 1, -1 >>,
          << 42967, 42969, 2, -1 >>, << 42998, 42998, 1, -1 >>,
          << 43859, 43859, 1, -928 >>, << 43888, 43967, 1, -38864 >>,
          << 65345, 65370, 1, -32 >>, << 66600, 66639, 1, -40 >>,
          << 66776, 66811, 1, -40 >>, << 66967, 67003, 2, -39 >>,
          << 66968, 66976, 2, -39 >>, << 66980, 66992, 2, -39 >>,
          << 66996, 67000, 2, -39 >>, << 67004, 67004, 1, -39 >>,
          << 68800, 68850, 1, -64 >>, << 71872, 71903, 1, -32 >>,
          << 93792, 93823, 1, -32 >>, << 125218, 125251, 1, -34 >> >>)

IsCased(c) == c \in Cased

\* the capital sigma at position k of s ends a word: the nearest character
\* before it that is not case-ignorable is cased, and the nearest one after
\* it, if any, is not
FinalSigma(s, k) ==
  /\ \E j \in 1..(k - 1) :
       /\ s[j] \notin CaseIgnorable
       /\ IsCased(s[j])
       /\ \A i \in (j + 1)..(k - 1) : s[i] \in CaseIgnorable
  /\ ~ \E j \in (k + 1)..Len(s) :
       /\ s[j] \notin CaseIgnorable
       /\ IsCased(s[j])
       /\ \A i \in (k + 1)..(j - 1) : s[i] \in CaseIgnorable

\* the lower case of the character at position k of s: a capital sigma
\* (931) becomes the final sigma (962) at the end of a word and the small
\* sigma (963) elsewhere
LowerAt(s, k) ==
  IF s[k] = 931
  THEN IF FinalSigma(s, k) THEN << 962 >> ELSE << 963 >>
  ELSE IF s[k] \in DOMAIN LowerOf THEN LowerOf[s[k]]
  ELSE << s[k] >>

\* the title case of the character at position k of s
TitleAt(s, k) ==
  IF s[k] \in DOMAIN TitleOf THEN TitleOf[s[k]] ELSE << s[k] >>

RECURSIVE TitleFrom(_, _, _)
\* str.title() from position k on: a character that follows a cased character
\* is put in lower case, a character that follows anything else (or nothing)
\* in title case
TitleFrom(s, k, afterCased) ==
  IF k > Len(s) THEN << >>
  ELSE (IF afterCased THEN LowerAt(s, k) ELSE TitleAt(s, k))
       \o TitleFrom(s, k + 1, IsCased(s[k]))

\* .str.title() on one cell of the gender column: a cell that is not a
\* string (a missing value) comes out missing
Title(v) ==
  IF v.kind = "str" THEN StrOf(TitleFrom(v.s, 1, FALSE)) ELSE NaN

RECURSIVE ReplaceFrom(_, _, _, _)
\* str.replace(old, new) from position k on: every occurrence of old, left
\* to right
ReplaceFrom(s, k, old, new) ==
  IF k > Len(s) THEN << >>
  ELSE IF k + Len(old) - 1 <= Len(s) /\ SubSeq(s, k, k + Len(old) - 1) = old
       THEN new \o ReplaceFrom(s, k + Len(old), old, new)
       ELSE << s[k] >> \o ReplaceFrom(s, k + 1, old, new)

\* str.replace(old, new): the string itself if old is nowhere in it
Replace(s, old, new) ==
  IF \E k \in 1..(Len(s) - Len(old) + 1) : SubSeq(s, k, k + Len(old) - 1) = old
  THEN ReplaceFrom(s, 1, old, new)
  ELSE s

\* .str.replace("?", "Unattended Vehicle") on one cell of the collision_type
\* column: a cell that is not a string (a missing value) comes out missing
ReplaceQuestionMark(v) ==
  IF v.kind = "str"
  THEN StrOf(Replace(v.s, Codes("?"), Codes("Unattended Vehicle")))
  ELSE NaN

\* pd.cut(age, bins = 15, 20, ..., 65): right-closed brackets of width 5
BracketLabels == << "15-20", "20-25", "25-30", "30-35", "35-40", "40-45",
                    "45-50", "50-55", "55-60", "60-65" >>

AgeBracket(a) ==
  IF a <= 15 \/ a > 65 THEN NaN
  ELSE Str(BracketLabels[((a - 16) \div 5) + 1])

\* Series.str of a column raises AttributeError ("Can only use .str accessor
\* with string values!") unless the column is of object dtype: a column of a
\* file with records is if one of its cells is a string, every column of a
\* file without records is
StrAccessorRaises(col) ==
  Len(col) > 0 /\ \A k \in 1..Len(col) : col[k].kind # "str"

\* preprocess_insurance_data raises AttributeError: at data["gender"].str or
\* at data["collision_type"].str
PreprocessRaises(raw) ==
  \/ StrAccessorRaises(Eval([i \in 1..Len(raw) |-> raw[i].insured_sex]))
  \/ StrAccessorRaises(Eval([i \in 1..Len(raw) |-> raw[i].collision_type]))

\* the frame preprocess_insurance_data returns, or the exception if it
\* raises
preprocess_insurance_data(raw) ==
  IF PreprocessRaises(raw) THEN << [raised |-> "AttributeError"] >> ELSE
  Eval([i \in 1..Len(raw) |->
    [ claim_amount |-> raw[i].total_claim_amount,
      age |-> raw[i].age,
      age_bracket |-> AgeBracket(raw[i].age),
      gender |-> Title(raw[i].insured_sex),
      accident_type |-> raw[i].accident_type,
      collision_type |-> ReplaceQuestionMark(raw[i].collision_type),
      incident_severity |-> raw[i].incident_severity,
      authorities_contacted |-> raw[i].authorities_contacted,
      state |-> raw[i].state,
      property_damage |-> raw[i].property_damage,
      bodily_injuries |-> raw[i].bodily_injuries,
      police_report_available |-> raw[i].police_report_available,
      auto_make |-> raw[i].auto_make,
      auto_model |-> raw[i].auto_model,
      auto_year |-> raw[i].auto_year ]])

(***************************************************************************)
(* The filter controls                                                     *)
(***************************************************************************)
\* the twelve select boxes, in the order of the script
Fields == << "gender", "accident_type", "collision_type", "incident_severity",
             "authorities_contacted", "state", "property_damage",
             "bodily_injuries", "police_report_available", "auto_make",
             "auto_model", "auto_year" >>

FieldSet == {Fields[k] : k \in 1..Len(Fields)}

Column(d, f) == Eval([i \in 1..Len(d) |-> d[i][f]])

RECURSIVE UniqueFrom(_, _, _)
UniqueFrom(col, k, acc) ==
  IF k > Len(col) THEN acc
  ELSE IF \E j \in 1..Len(acc) : acc[j] = col[k]
       THEN UniqueFrom(col, k + 1, acc)
       ELSE UniqueFrom(col, k + 1, Append(acc, col[k]))

\* Series.unique(): the distinct values in order of first appearance, a
\* missing value included (once)
Unique(col) == UniqueFrom(col, 1, << >>)

\* Series.dropna()
DropNa(col) == SelectSeq(col, LAMBDA v : v.kind # "nan")

\* s, descending with its missing values last, with v put in: a number
\* after the numbers that are not below it, a missing value after every
\* number and after the missing values before it
InsertDesc(s, v) ==
  LET k == Cardinality({j \in 1..Len(s) :
                          IF v.kind = "nan" THEN TRUE
                          ELSE s[j].kind # "nan" /\ s[j].n >= v.n})
  IN  SubSeq(s, 1, k) \o << v >> \o SubSeq(s, k + 1, Len(s))

RECURSIVE SortDescFrom(_, _, _)
SortDescFrom(col, k, acc) ==
  IF k > Len(col) THEN acc ELSE SortDescFrom(col, k + 1, InsertDesc(acc, col[k]))

\* Series.sort_values(ascending=False) of a numeric column: the numbers from
\* the largest down, then the missing
\* values (na_position is "last")
SortDesc(col) == SortDescFrom(col, 1, << >>)

\* the options with the missing values of authorities_contacted kept
OptionsKeepNa(d, f) ==
  << None >> \o
  ( CASE f = "auto_year" -> Unique(SortDesc(Column(d, f)))
      [] OTHER -> Unique(Column(d, f)) )

\* the options list handed to st.selectbox for field f
Options(d, f) ==
  << None >> \o
  ( CASE f = "authorities_contacted" -> Unique(DropNa(Column(d, f)))
      [] f = "auto_year" -> Unique(SortDesc(Column(d, f)))
      [] OTHER -> Unique(Column(d, f)) )

MinAge(d) == CHOOSE a \in {d[i].age : i \in 1..Len(d)} :
               \A i \in 1..Len(d) : a <= d[i].age
MaxAge(d) == CHOOSE a \in {d[i].age : i \in 1..Len(d)} :
               \A i \in 1..Len(d) : a >= d[i].age

(***************************************************************************)
(* The per-field conditions and the combined mask                          *)
(***************************************************************************)
\* the lower end of the range left open: age > min_age
AgeConditionOpenBelow(d, lo, hi) ==
  Eval([i \in 1..Len(d) |-> d[i].age > lo /\ d[i].age <= hi])

\* the upper end of the range left open: age < max_age
AgeConditionOpenAbove(d, lo, hi) ==
  Eval([i \in 1..Len(d) |-> d[i].age >= lo /\ d[i].age < hi])

\* age_condition: one boolean per record
age_condition(d, lo, hi) ==
  Eval([i \in 1..Len(d) |-> d[i].age >= lo /\ d[i].age <= hi])

\* The value of a <field>_condition variable: the Python scalar True, or a
\* boolean Series with one entry per record
ScalarTrue == [scalar |-> TRUE, vec |-> << >>]
Series(v) == [scalar |-> FALSE, vec |-> v]

\* the gender block with its else branch assigning False
ConditionGenderElseFalse(d, f, status) ==
  IF Truthy(status)
  THEN Series(Eval([i \in 1..Len(d) |-> PdEq(d[i][f], status)]))
  ELSE IF f = "gender" THEN Series(Eval([i \in 1..Len(d) |-> FALSE]))
       ELSE ScalarTrue

\* <field>_condition: the column compared with the chosen value if the
\* chosen value is truthy, the scalar True otherwise
Condition(d, f, status) ==
  IF Truthy(status)
  THEN Series(Eval([i \in 1..Len(d) |-> PdEq(d[i][f], status)]))
  ELSE ScalarTrue

\* the twelve <field>_condition values, in the order of Fields
Conditions(d, st) ==
  Eval([k \in 1..Len(Fields) |-> Condition(d, Fields[k], st[Fields[k]])])

\* entry i of a condition under the broadcasting of &
At(c, i) == IF c.scalar THEN TRUE ELSE c.vec[i]

\* all_conditions: age_condition & gender_type_condition & ... & auto_year_condition
AllConditions(agec, conds) ==
  Eval([i \in 1..Len(agec) |->
     agec[i] /\ \A k \in 1..Len(Fields) : At(conds[k], i)])

\* the negation left out: data[all_conditions] taken twice
NotLeftOut(mask) == mask

\* ~mask
Not(mask) == Eval([i \in 1..Len(mask) |-> ~mask[i]])

RECURSIVE RowsWhere(_, _)
\* data[mask]: the records where the mask is true, in order, by record number
RowsWhere(mask, k) ==
  IF k > Len(mask) THEN << >>
  ELSE (IF mask[k] THEN << k >> ELSE << >>) \o RowsWhere(mask, k + 1)

\* data[all_conditions] and data[~all_conditions]
Selected(mask) == RowsWhere(mask, 1)
Excluded(mask) == RowsWhere(Not(mask), 1)

ClaimsOf(d, rows) == Eval([k \in 1..Len(rows) |-> d[rows[k]].claim_amount])

(***************************************************************************)
(* Series.describe() of the claim values, rounded to two decimals.  A cell *)
(* of the table is NaN or a number held in hundredths.                     *)
(***************************************************************************)
CellNaN == [nan |-> TRUE, v |-> 0]
Cell(c) == [nan |-> FALSE, v |-> c]

\* s, ascending, with x put in after the entries that are not above it
InsertAsc(s, x) ==
  LET k == Cardinality({j \in 1..Len(s) : s[j] <= x})
  IN  SubSeq(s, 1, k) \o << x >> \o SubSeq(s, k + 1, Len(s))

RECURSIVE SortFrom(_, _, _)
SortFrom(xs, k, acc) ==
  IF k > Len(xs) THEN acc ELSE SortFrom(xs, k + 1, InsertAsc(acc, xs[k]))

\* the values in ascending order
SortAsc(xs) == SortFrom(xs, 1, << >>)

RECURSIVE SumBetween(_, _, _)
\* xs[lo] + ... + xs[hi], by halves
SumBetween(xs, lo, hi) ==
  IF lo > hi THEN 0
  ELSE IF lo = hi THEN xs[lo]
  ELSE SumBetween(xs, lo, (lo + hi) \div 2)
       + SumBetween(xs, ((lo + hi) \div 2) + 1, hi)

Sum(xs) == SumBetween(xs, 1, Len(xs))

SumSq(xs) == Sum(Eval([k \in 1..Len(xs) |-> xs[k] * xs[k]]))

(***************************************************************************)
(* Double-precision arithmetic, as numpy does it on claim amounts (which   *)
(* are never negative).  A natural number of any size is the sequence of   *)
(* its digits in base Base, lowest first; a double is m * 2^e with m a     *)
(* natural number of at most Mantissa bits.                                *)
(***************************************************************************)
Base == 32768
Mantissa == 53

RECURSIVE BigNorm(_)
\* without leading zero digits
BigNorm(a) ==
  IF a = << >> THEN a
  ELSE IF a[Len(a)] = 0 THEN BigNorm(SubSeq(a, 1, Len(a) - 1)) ELSE a

RECURSIVE BigOf(_)
BigOf(n) == IF n = 0 THEN << >> ELSE << n % Base >> \o BigOf(n \div Base)

RECURSIVE BigToInt(_)
BigToInt(a) == IF a = << >> THEN 0 ELSE a[1] + Base * BigToInt(Tail(a))

DigitAt(a, k) == IF k <= Len(a) THEN a[k] ELSE 0

RECURSIVE BigAddFrom(_, _, _, _)
BigAddFrom(a, b, k, carry) ==
  IF k > Len(a) /\ k > Len(b)
  THEN IF carry = 0 THEN << >> ELSE << carry >>
  ELSE LET t == DigitAt(a, k) + DigitAt(b, k) + carry
       IN  << t % Base >> \o BigAddFrom(a, b, k + 1, t \div Base)

BigAdd(a, b) == BigAddFrom(a, b, 1, 0)

RECURSIVE BigSubFrom(_, _, _, _)
BigSubFrom(a, b, k, borrow) ==
  IF k > Len(a) THEN << >>
  ELSE LET t == a[k] - DigitAt(b, k) - borrow
       IN  IF t < 0 THEN << t + Base >> \o BigSubFrom(a, b, k + 1, 1)
           ELSE << t >> \o BigSubFrom(a, b, k + 1, 0)

\* a - b, for a >= b
BigSub(a, b) == BigNorm(BigSubFrom(a, b, 1, 0))

BigLess(a, b) ==
  \/ Len(a) < Len(b)
  \/ /\ Len(a) = Len(b)
     /\ \E k \in 1..Len(a) :
          /\ a[k] < b[k]
          /\ \A j \in (k + 1)..Len(a) : a[j] = b[j]

RECURSIVE BigTimesFrom(_, _, _, _)
BigTimesFrom(a, n, k, carry) ==
  IF k > Len(a) THEN BigOf(carry)
  ELSE LET t == a[k] * n + carry
       IN  << t % Base >> \o BigTimesFrom(a, n, k + 1, t \div Base)

\* a * n, for n below Base
BigTimes(a, n) == BigNorm(BigTimesFrom(a, n, 1, 0))

RECURSIVE BigDivFrom(_, _, _, _)
BigDivFrom(a, n, k, rem) ==
  IF k = 0 THEN [q |-> << >>, r |-> rem]
  ELSE LET cur == rem * Base + a[k]
           rest == BigDivFrom(a, n, k - 1, cur % n)
       IN  [q |-> rest.q \o << cur \div n >>, r |-> rest.r]

\* the quotient q and the remainder r of a by n, for n from 1 to Base
BigDivMod(a, n) ==
  LET d == BigDivFrom(a, n, Len(a), 0) IN [q |-> BigNorm(d.q), r |-> d.r]

RECURSIVE IntBits(_)
IntBits(n) == IF n = 0 THEN 0 ELSE 1 + IntBits(n \div 2)

\* the number of binary digits of a
BitLength(a) ==
  IF a = << >> THEN 0
  ELSE IntBits(Base - 1) * (Len(a) - 1) + IntBits(a[Len(a)])

\* a * 2^s
ShiftLeft(a, s) ==
  LET w == IntBits(Base - 1)
  IN  IF a = << >> THEN a
      ELSE Eval([k \in 1..(s \div w) |-> 0]) \o BigTimes(a, 2^(s % w))

\* a \div 2^s
ShiftRight(a, s) ==
  LET w == IntBits(Base - 1)
  IN  IF s \div w >= Len(a) THEN << >>
      ELSE BigDivMod(SubSeq(a, (s \div w) + 1, Len(a)), 2^(s % w)).q

\* q or q + 1, whichever is nearer to q + rem / (2 * half), the even one of
\* the two if they are as near
NearerOf(q, rem, half) ==
  IF BigLess(rem, half) THEN q
  ELSE IF BigLess(half, rem) THEN BigAdd(q, << 1 >>)
  ELSE IF DigitAt(q, 1) % 2 = 0 THEN q ELSE BigAdd(q, << 1 >>)

\* the same for a = q * 2^d + rem
RoundFrom(a, d, q) ==
  NearerOf(q, BigSub(a, ShiftLeft(q, d)), ShiftLeft(<< 1 >>, d - 1))

\* a / 2^d rounded to the nearest natural number, a tie to the even one
RoundHalfEven(a, d) == IF d = 0 THEN a ELSE RoundFrom(a, d, ShiftRight(a, d))

Double(m, e) == [m |-> m, e |-> e]

\* the double nearest to m * 2^e
Fl(m, e) ==
  LET len == BitLength(m)
  IN  IF len <= Mantissa THEN Double(m, e)
      ELSE Double(RoundHalfEven(m, len - Mantissa), e + len - Mantissa)

DoubleOf(n) == Double(BigOf(n), 0)

\* the m of x * 2^(x.e - e), for e <= x.e
Aligned(x, e) == ShiftLeft(x.m, x.e - e)

LowerExp(x, y) == IF x.e < y.e THEN x.e ELSE y.e

DoubleAdd(x, y) ==
  LET e == LowerExp(x, y)
  IN  Fl(BigAdd(Aligned(x, e), Aligned(y, e)), e)

\* x - y, for x >= y
DoubleSub(x, y) ==
  LET e == LowerExp(x, y)
  IN  Fl(BigSub(Aligned(x, e), Aligned(y, e)), e)

DoubleLess(x, y) ==
  LET e == LowerExp(x, y)
  IN  BigLess(Aligned(x, e), Aligned(y, e))

\* x * n for an integer n from 0 below Base
DoubleTimes(x, n) == Fl(BigTimes(x.m, n), x.e)

\* num / den for integers num >= 0 and den from 1 to Base: the quotient to
\* more than Mantissa + 1 bits and one more bit for a remainder
DoubleDivFrom(d, s) ==
  Fl(BigAdd(BigTimes(d.q, 2), IF d.r = 0 THEN << >> ELSE << 1 >>), 0 - s - 1)

DoubleDivBy(num, den, s) ==
  DoubleDivFrom(BigDivMod(ShiftLeft(BigOf(num), s), den), s)

DoubleDiv(num, den) == DoubleDivBy(num, den, Mantissa + 2 * IntBits(Base - 1))

\* floor(x) as an integer
DoubleFloor(x) ==
  IF x.e >= 0 THEN BigToInt(ShiftLeft(x.m, x.e))
  ELSE BigToInt(ShiftRight(x.m, 0 - x.e))

\* numpy.rint(x) as an integer: a tie goes to the even integer
DoubleRint(x) ==
  IF x.e >= 0 THEN BigToInt(ShiftLeft(x.m, x.e))
  ELSE BigToInt(RoundHalfEven(x.m, 0 - x.e))

\* (num / den).round(2) in hundredths: numpy computes rint(x * 100) / 100
\* on the double x = num / den.  The doubles are off the exact values by
\* less than 2^-20 hundredths, and an exact 100 * num / den that is not
\* halfway between two integers is at least 1 / (2 * den) away from halfway,
\* so only an exact tie needs the doubles to tell which way it goes.
Round2(num, den) ==
  LET q == (100 * num) \div den
      r == (100 * num) % den
  IN  IF 2 * r < den THEN q
      ELSE IF 2 * r > den THEN q + 1
      ELSE DoubleRint(DoubleTimes(DoubleDiv(num, den), 100))

\* Series.quantile(qn / qd), linear interpolation between the two order
\* statistics around position (qn / qd) * (n - 1); s is the values in
\* ascending order, the result is the quantile times qd
QuantileTimes(s, qn, qd) ==
  LET pos == qn * (Len(s) - 1)
      lo == (pos \div qd) + 1
      fr == pos % qd
  IN  IF fr = 0 THEN qd * s[lo]
      ELSE qd * s[lo] + fr * (s[lo + 1] - s[lo])

RECURSIVE BigMulFrom(_, _, _)
BigMulFrom(a, b, k) ==
  IF k > Len(b) THEN << >>
  ELSE BigAdd(BigTimes(a, b[k]), << 0 >> \o BigMulFrom(a, b, k + 1))

\* a * b
BigMul(a, b) == BigNorm(BigMulFrom(a, b, 1))

\* r with the digit d added at position k
WithDigit(r, k, d) == BigAdd(r, Eval([j \in 1..k |-> IF j = k THEN d ELSE 0]))

RECURSIVE RootDigit(_, _, _, _, _)
\* the largest digit d in lo..hi for which the square of r with d at
\* position k is at most a
RootDigit(a, r, k, lo, hi) ==
  IF lo >= hi THEN lo
  ELSE IF BigLess(a, BigMul(WithDigit(r, k, (lo + hi + 1) \div 2),
                            WithDigit(r, k, (lo + hi + 1) \div 2)))
       THEN RootDigit(a, r, k, lo, ((lo + hi + 1) \div 2) - 1)
       ELSE RootDigit(a, r, k, (lo + hi + 1) \div 2, hi)

RECURSIVE BigRootFrom(_, _)
\* the largest st.r + j, j below Base^st.k, whose square is at most a
BigRootFrom(a, st) ==
  IF st.k = 0 THEN BigNorm(st.r)
  ELSE BigRootFrom(a, [r |-> WithDigit(st.r, st.k,
                                       RootDigit(a, st.r, st.k, 0, Base - 1)),
                       k |-> st.k - 1])

\* the integer part of the square root of a
BigRoot(a) == BigRootFrom(a, [r |-> << >>, k |-> (Len(a) + 1) \div 2])

\* x * x
DoubleSquare(x) == Fl(BigMul(x.m, x.m), 2 * x.e)

\* the absolute value of x - y
DoubleDistance(x, y) ==
  DoubleSub(IF DoubleLess(x, y) THEN y ELSE x, IF DoubleLess(x, y) THEN x ELSE y)

\* x / n for an integer n from 1 to Base
DoubleOver(x, n) ==
  LET s == Mantissa + 2 * IntBits(Base - 1)
      d == BigDivMod(ShiftLeft(x.m, s), n)
  IN  Fl(BigAdd(BigTimes(d.q, 2), IF d.r = 0 THEN << >> ELSE << 1 >>),
         x.e - s - 1)

\* sqrt(m * 2^e) for an even e and an m of more than 2 * Mantissa + 1 bits:
\* the integer root to more than Mantissa + 1 bits and one more bit for a
\* remainder
DoubleSqrtOf(m, e, root) ==
  Fl(BigAdd(BigTimes(root, 2), IF BigMul(root, root) = m THEN << >> ELSE << 1 >>),
     (e \div 2) - 1)

\* numpy.sqrt(x), from x as m * 2^e with x.m shifted left by s bits
DoubleSqrt(x) ==
  LET s == 2 * Mantissa + 2 - BitLength(x.m) + ((x.e + BitLength(x.m)) % 2)
  IN  IF x.m = << >> THEN Double(<< >>, 0)
      ELSE DoubleSqrtOf(ShiftLeft(x.m, s), x.e - s, BigRoot(ShiftLeft(x.m, s)))

RECURSIVE SumInOrder(_, _, _, _)
\* st.acc + a[st.from] + a[st.from + step] + ... up to position to, added
\* one by one
SumInOrder(a, step, to, st) ==
  IF st.from > to THEN st.acc
  ELSE SumInOrder(a, step, to, [from |-> st.from + step,
                                acc |-> DoubleAdd(st.acc, a[st.from])])

RECURSIVE SumOfPairs(_)
\* the doubles r added as a tree: (r[1] + r[2]) + (r[3] + r[4]) and so on,
\* for 2, 4, 8, ... of them
SumOfPairs(r) ==
  IF Len(r) = 1 THEN r[1]
  ELSE SumOfPairs(Eval([j \in 1..(Len(r) \div 2) |->
                          DoubleAdd(r[2 * j - 1], r[2 * j])]))

\* numpy's pairwise sum of a block of up to 128 values: eight running sums
\* a[j] + a[j + 8] + ... over the first full values (8 or more, or none),
\* added as a tree, and the up to seven values that are left added one by one
PairwiseLanes(a, full) ==
  SumInOrder(a, 1, Len(a),
    [from |-> full + 1,
     acc |-> IF full = 0 THEN Double(<< >>, 0)
             ELSE SumOfPairs(Eval([j \in 1..8 |->
                    SumInOrder(a, 8, full, [from |-> j + 8, acc |-> a[j]])]))])

RECURSIVE PairwiseSum(_)
\* numpy's sum of the doubles a (ndarray.sum of a contiguous array): one by
\* one below 8 values, in lanes up to 128 values, and by halves above
PairwiseSum(a) ==
  IF Len(a) <= 128
  THEN PairwiseLanes(a, IF Len(a) < 8 THEN 0 ELSE Len(a) - (Len(a) % 8))
  ELSE DoubleAdd(
         PairwiseSum(SubSeq(a, 1, (Len(a) \div 2) - ((Len(a) \div 2) % 8))),
         PairwiseSum(SubSeq(a, (Len(a) \div 2) - ((Len(a) \div 2) % 8) + 1, Len(a))))

\* the squares (avg - x)^2 of pandas' nanvar, in doubles
SquaredDeviations(xs, avg) ==
  Eval([k \in 1..Len(xs) |-> DoubleSquare(DoubleDistance(avg, DoubleOf(xs[k])))])

\* Series.std() as pandas computes it in doubles: the square root of the sum
\* of (avg - x)^2 over n - 1, avg the sum of the values over n; the squares
\* are added up in the order of the values xs
StdInDoubles(xs) ==
  DoubleSqrt(DoubleOver(PairwiseSum(SquaredDeviations(xs, DoubleDiv(Sum(xs), Len(xs)))),
                        Len(xs) - 1))

RECURSIVE IntegerRoot(_, _, _)
\* the largest c in lo..hi with c * c <= t
IntegerRoot(lo, hi, t) ==
  IF lo >= hi THEN lo
  ELSE IF ((lo + hi + 1) \div 2) * ((lo + hi + 1) \div 2) <= t
       THEN IntegerRoot((lo + hi + 1) \div 2, hi, t)
       ELSE IntegerRoot(lo, ((lo + hi + 1) \div 2) - 1, t)

\* std().round(2) in hundredths, the sample standard deviation (ddof = 1):
\* for a variance of ss / den and u the integer part of 200 * std, numpy
\* computes rint(std * 100) / 100 on the double std.  The double is off the
\* exact value by less than 2^-20 hundredths and an exact 100 * std that is
\* not halfway between two integers is further than that from halfway, so
\* only an exact tie (u odd and u * u * den equal to 40000 * ss) needs the
\* doubles to tell which way it goes.  xs is the values in the order of the
\* records, in which pandas adds them up, and s the same in ascending order.
StdCents(xs, s) ==
  LET n == Len(xs)
      sum == Sum(xs)
      ss == n * SumSq(xs) - sum * sum
      den == n * (n - 1)
      u == IntegerRoot(0, 200 * (s[n] - s[1]), (40000 * ss) \div den)
  IN  IF u % 2 = 1 /\ u * u * den = 40000 * ss
      THEN DoubleRint(DoubleTimes(StdInDoubles(xs), 100))
      ELSE (u + 1) \div 2

StatNames == << "count", "mean", "std", "min", "25%", "50%", "75%", "max" >>

\* describe() with the mean of no values reported as 0
DescribeValuesZeroMean(xs) ==
  LET n == Len(xs)
      s == SortAsc(xs)
  IN  IF n = 0
      THEN << Cell(0), Cell(0), CellNaN, CellNaN, CellNaN, CellNaN, CellNaN,
              CellNaN >>
      ELSE << Cell(100 * n),
              Cell(Round2(Sum(s), n)),
              IF n = 1 THEN CellNaN ELSE Cell(StdCents(xs, s)),
              Cell(100 * s[1]),
              Cell(Round2(QuantileTimes(s, 1, 4), 4)),
              Cell(Round2(QuantileTimes(s, 2, 4), 4)),
              Cell(Round2(QuantileTimes(s, 3, 4), 4)),
              Cell(100 * s[n]) >>

\* claim_amount.describe().round(2): the eight statistics in describe's order
DescribeValues(xs) ==
  LET n == Len(xs)
      s == SortAsc(xs)
  IN  IF n = 0
      THEN << Cell(0), CellNaN, CellNaN, CellNaN, CellNaN, CellNaN, CellNaN,
              CellNaN >>
      ELSE << Cell(100 * n),
              Cell(Round2(Sum(s), n)),
              IF n = 1 THEN CellNaN ELSE Cell(StdCents(xs, s)),
              Cell(100 * s[1]),
              Cell(Round2(QuantileTimes(s, 1, 4), 4)),
              Cell(Round2(QuantileTimes(s, 2, 4), 4)),
              Cell(Round2(QuantileTimes(s, 3, 4), 4)),
              Cell(100 * s[n]) >>

(***************************************************************************)
(* The comparison table (description_table).  A data frame is a sequence   *)
(* of rows; ix is the row's index label, the other fields its columns.     *)
(***************************************************************************)
\* pd.DataFrame(<describe()>).reset_index(): columns index, claim_amount
DescribeFrame(xs) ==
  LET values == DescribeValues(xs)
  IN  Eval([k \in 1..Len(StatNames) |->
              [ix |-> k - 1, index |-> StatNames[k], claim_amount |-> values[k]]])

\* .rename(columns={"claim_amount": "Excluded Data"})
RenameExcluded(fr) ==
  Eval([k \in 1..Len(fr) |->
     [ix |-> fr[k].ix, index |-> fr[k].index, Excluded |-> fr[k].claim_amount]])

RECURSIVE MergeOnIndexFrom(_, _, _)
MergeOnIndexFrom(left, right, k) ==
  IF k > Len(left) THEN << >>
  ELSE LET hits == SelectSeq(right, LAMBDA r : r.index = left[k].index)
       IN  Eval([j \in 1..Len(hits) |->
              [index |-> left[k].index, claim_amount |-> left[k].claim_amount,
               Excluded |-> hits[j].Excluded]])
           \o MergeOnIndexFrom(left, right, k + 1)

\* left.merge(right): inner join on the one shared column, "index", in the
\* order of the left keys, with a fresh RangeIndex
MergeOnIndex(left, right) ==
  LET rows == MergeOnIndexFrom(left, right, 1)
  IN  Eval([k \in 1..Len(rows) |->
         [ix |-> k - 1, index |-> rows[k].index,
          claim_amount |-> rows[k].claim_amount, Excluded |-> rows[k].Excluded]])

\* .reset_index().rename(columns={"claim_amount": "Selected Data",
\* "index": "Statistic"}).drop(columns="level_0")
ResetRenameDrop(fr) ==
  Eval([k \in 1..Len(fr) |->
     [ix |-> k - 1, Statistic |-> fr[k].index, Selected |-> fr[k].claim_amount,
      Excluded |-> fr[k].Excluded]])

\* describe_df: the Statistic column copied from description_table and the
\* describe() values of all rows assigned by position
DescribeDf(table, xs) ==
  LET values == DescribeValues(xs)
  IN  Eval([k \in 1..Len(table) |->
              [ix |-> table[k].ix, Statistic |-> table[k].Statistic,
               All |-> values[k]]])

RECURSIVE MergeOnStatisticFrom(_, _, _)
MergeOnStatisticFrom(left, right, k) ==
  IF k > Len(left) THEN << >>
  ELSE LET hits == SelectSeq(right, LAMBDA r : r.Statistic = left[k].Statistic)
       IN  Eval([j \in 1..Len(hits) |->
              [Statistic |-> left[k].Statistic, Selected |-> left[k].Selected,
               Excluded |-> left[k].Excluded, All |-> hits[j].All]])
           \o MergeOnStatisticFrom(left, right, k + 1)

\* description_table.merge(describe_df, on="Statistic")
MergeOnStatistic(left, right) ==
  LET rows == MergeOnStatisticFrom(left, right, 1)
  IN  Eval([k \in 1..Len(rows) |->
         [ix |-> k - 1, Statistic |-> rows[k].Statistic,
          Selected |-> rows[k].Selected, Excluded |-> rows[k].Excluded,
          All |-> rows[k].All]])

\* the dictionary with the labels of mean and 50% exchanged
StatisticLabelSwapped(name) ==
  CASE name = "count" -> "Number of Rows"
    [] name = "mean" -> "Median Value"
    [] name = "std" -> "Standard Deviation"
    [] name = "min" -> "Minimum Value"
    [] name = "25%" -> "25th Percentile Value"
    [] name = "50%" -> "Average Value"
    [] name = "75%" -> "75th Percentile Value"
    [] name = "max" -> "Maximum Value"
    [] OTHER -> "NaN"

\* the dictionary handed to Series.map; a key it lacks maps to NaN
StatisticLabel(name) ==
  CASE name = "count" -> "Number of Rows"
    [] name = "mean" -> "Average Value"
    [] name = "std" -> "Standard Deviation"
    [] name = "min" -> "Minimum Value"
    [] name = "25%" -> "25th Percentile Value"
    [] name = "50%" -> "Median Value"
    [] name = "75%" -> "75th Percentile Value"
    [] name = "max" -> "Maximum Value"
    [] OTHER -> "NaN"

MapStatistic(fr) ==
  Eval([k \in 1..Len(fr) |->
          [fr[k] EXCEPT !.Statistic = StatisticLabel(fr[k].Statistic)]])

\* the index label description_table.drop(2, inplace=True) drops
DroppedLabel == 2

\* the row after the labelled one dropped instead
DropLabelOffByOne(fr, label) == SelectSeq(fr, LAMBDA r : r.ix # label + 1)

\* DataFrame.drop(label): the rows whose index label is not `label`
DropLabel(fr, label) == SelectSeq(fr, LAMBDA r : r.ix # label)

\* the positions of .iloc[[0, 2, 3, 4, 1, 5, 6], :]
IlocOrder == << 0, 2, 3, 4, 1, 5, 6 >>

\* DataFrame.iloc[positions, :]: rows by (0-based) position
Iloc(fr, positions) == Eval([k \in 1..Len(positions) |-> fr[positions[k] + 1]])

\* the table of the selected and the excluded rows' statistics
SelectedAndExcluded(d, sel, exc) ==
  ResetRenameDrop(MergeOnIndex(DescribeFrame(ClaimsOf(d, sel)),
                               RenameExcluded(DescribeFrame(ClaimsOf(d, exc)))))

\* the table with the statistics of the values xs merged in as All Data, the
\* statistics given their labels, the std row dropped and the median moved up
WithAllData(table, xs) ==
  Iloc(DropLabel(MapStatistic(MergeOnStatistic(table, DescribeDf(table, xs))),
                 DroppedLabel),
       IlocOrder)

\* the table with the All Data values described from the selected rows
DescriptionTableAllFromSelected(d, sel, exc) ==
  WithAllData(SelectedAndExcluded(d, sel, exc), ClaimsOf(d, sel))

\* description_table from the claim values of data[all_conditions],
\* data[~all_conditions] and data
DescriptionTable(d, sel, exc) ==
  WithAllData(SelectedAndExcluded(d, sel, exc), Column(d, "claim_amount"))

(***************************************************************************)
(* The distribution charts                                                 *)
(***************************************************************************)
\* `if data[all_conditions].shape[0] <= 10:` the small-subset remark
SmallSubset(n) == n <= 10

\* the distribution plots only above ten rows
ShowDistributionAbove(n) == n > 10

\* `if data[all_conditions].shape[0] >= 10:` the distribution plots
ShowDistribution(n) == n >= 10

\* numpy's _lerp: a + (b - a) * gamma, or b - (b - a) * (1 - gamma) from
\* gamma = 0.5 on, in doubles; a <= b are claim amounts
Lerp(a, b, gamma) ==
  IF DoubleLess(gamma, DoubleDiv(1, 2))
  THEN DoubleAdd(DoubleOf(a), DoubleTimes(gamma, b - a))
  ELSE DoubleSub(DoubleOf(b),
                 DoubleTimes(DoubleSub(DoubleOf(1), gamma), b - a))

\* the interpolation between the values before and after the position, by
\* the position's fractional part
QuantileBetween(s, position, previous) ==
  Lerp(s[previous + 1],
       s[IF previous + 2 <= Len(s) THEN previous + 2 ELSE Len(s)],
       DoubleSub(position, DoubleOf(previous)))

QuantileAt(s, position) == QuantileBetween(s, position, DoubleFloor(position))

\* Series.quantile(pct / 100) as numpy.percentile computes it in doubles: the
\* quantile q = pct / 100, the position (n - 1) * q and the interpolation
\* there; s is the values in ascending order
Quantile(s, pct) == QuantileAt(s, DoubleTimes(DoubleDiv(pct, 100), Len(s) - 1))

\* tail > body for tail = max - p90 and body = p90 - p75, in doubles
SpreadsSkewed(max, p90, p75) ==
  DoubleLess(DoubleSub(p90, p75), DoubleSub(max, p90))

\* max - quantile(.9) > quantile(.9) - quantile(.75) on the doubles: the two
\* quantiles, the two differences and the comparison
SkewInDoubles(s) ==
  SpreadsSkewed(DoubleOf(s[Len(s)]), Quantile(s, 90), Quantile(s, 75))

\* distribution_skew_condition: max - quantile(.9) > quantile(.9) - quantile(.75).
\* The exact spreads are multiples of 1/20 and the doubles are off them by
\* less than 2^-20, so spreads that differ compare as their doubles do; of
\* spreads that are equal the doubles decide.
DistributionSkew(xs) ==
  LET s == SortAsc(xs)
      tail20 == 20 * s[Len(s)] - 2 * QuantileTimes(s, 9, 10)
      body20 == 2 * QuantileTimes(s, 9, 10) - 5 * QuantileTimes(s, 3, 4)
  IN  IF tail20 = body20 THEN SkewInDoubles(s) ELSE tail20 > body20

\* claim_amount < quantile(.9) for one claim amount: the double decides where
\* the amount is the exact percentile
BelowQuantile(claim, s) ==
  IF 10 * claim = QuantileTimes(s, 9, 10)
  THEN DoubleLess(DoubleOf(claim), Quantile(s, 90))
  ELSE 10 * claim < QuantileTimes(s, 9, 10)

\* the rows below the 90th percentile of all records' claim values
BelowP90OfAllData(d, rows) ==
  LET s == SortAsc(Column(d, "claim_amount"))
  IN  SelectSeq(rows, LAMBDA r : BelowQuantile(d[r].claim_amount, s))

\* data[all_conditions][claim_amount < quantile(.9)], by record number
BelowP90(d, rows) ==
  LET s == SortAsc(ClaimsOf(d, rows))
  IN  SelectSeq(rows, LAMBDA r : BelowQuantile(d[r].claim_amount, s))

\* the rows handed to the histogram and the boxplot, none without charts
HistData(d, rows) ==
  IF ~ShowDistribution(Len(rows)) THEN << >>
  ELSE IF DistributionSkew(ClaimsOf(d, rows)) THEN BelowP90(d, rows)
       ELSE rows

Out(what, condition) == [what |-> what, condition |-> condition]

\* the comparison bar plot drawn only together with the distribution plots
RenderedBarGuarded(d, rows) ==
  LET condition == IF DistributionSkew(ClaimsOf(d, rows))
                   THEN "Selected Data without Extreme Outliers"
                   ELSE "Selected Data"
  IN  (IF SmallSubset(Len(rows)) THEN << Out("write", "") >> ELSE << >>)
      \o << Out("dataframe", "") >>
      \o (IF ShowDistribution(Len(rows))
          THEN Eval([k \in 1..2 |-> Out(IF k = 1 THEN "histogram" ELSE "boxplot", condition)])
               \o << Out("bar", "") >>
          ELSE << >>)
      \o << Out("scatter", "") >>

\* what the pass shows, in order, from the remark to the scatterplot
Rendered(d, rows) ==
  LET condition == IF DistributionSkew(ClaimsOf(d, rows))
                   THEN "Selected Data without Extreme Outliers"
                   ELSE "Selected Data"
  IN  (IF SmallSubset(Len(rows)) THEN << Out("write", "") >> ELSE << >>)
      \o << Out("dataframe", "") >>
      \o (IF ShowDistribution(Len(rows))
          THEN Eval([k \in 1..2 |-> Out(IF k = 1 THEN "histogram" ELSE "boxplot", condition)])
          ELSE << >>)
      \o << Out("bar", ""), Out("scatter", "") >>

\* plotly_filtered_claims_bar: the rows of the table the bar chart draws
BarData(table) ==
  SelectSeq(table, LAMBDA r : r.Statistic \in {"Average Value", "Median Value"})

(***************************************************************************)
(* The columns of the file and where the script reads them.  A file may    *)
(* lack one of the columns the filter section needs; reading a column the  *)
(* frame does not have raises KeyError and ends the run.                   *)
(***************************************************************************)
\* the columns of the file the filter section needs, by their names in the file
RequiredColumns ==
  (FieldSet \ {"gender"}) \cup {"insured_sex", "age", "total_claim_amount"}

\* the name of a file column after data.rename(columns=...)
Renamed(c) ==
  CASE c = "total_claim_amount" -> "claim_amount"
    [] c = "insured_sex" -> "gender"
    [] OTHER -> c

\* the columns preprocess_insurance_data drops: data.drop(columns=[...])
\* raises KeyError if the frame lacks one of them
DroppedColumns ==
  {"policy_state", "policy_csl", "policy_deductable", "policy_annual_premium",
   "umbrella_limit", "policy_number", "capital-gains", "capital-loss", "city",
   "injury_claim", "property_claim", "vehicle_claim"}

\* the columns preprocess_insurance_data needs after the rename:
\* data["gender"].str.title(), pd.cut(data["age"]), the dropped columns and
\* data["collision_type"]
PreprocessReads == {"gender", "age", "collision_type"} \cup DroppedColumns

Step(what, reads) == [what |-> what, reads |-> reads]

\* a pie chart of a column followed by the bar chart of its mean and median
PieAndBar(f) == << Step("chart", {f}), Step("chart", {f, "claim_amount"}) >>

\* the charts and controls of display_analysis before all_conditions, in the
\* order of the script, each with the columns it reads
PageSteps ==
  << Step("chart", {"gender", "claim_amount"}),
     Step("chart", {"age"}),
     Step("chart", {"age", "claim_amount"}),
     Step("chart", {"age", "claim_amount"}),
     Step("chart", {"auto_make", "auto_model"}),
     Step("chart", {"auto_make", "claim_amount"}),
     Step("chart", {"auto_model", "claim_amount"}),
     Step("chart", {"auto_year", "claim_amount"}),
     Step("chart", {"auto_year", "claim_amount"}),
     Step("chart", {"state"}),
     Step("chart", {"state", "claim_amount"}) >>
  \o PieAndBar("accident_type")
  \o PieAndBar("collision_type")
  \o PieAndBar("incident_severity")
  \o PieAndBar("bodily_injuries")
  \o PieAndBar("authorities_contacted")
  \o << Step("chart", {"age", "claim_amount", "authorities_contacted"}) >>
  \o PieAndBar("police_report_available")
  \o << Step("slider", {"age"}) >>
  \o Eval([k \in 1..Len(Fields) |-> Step("selectbox", {Fields[k]})])

\* what the steps show, in order
Whats(steps) == Eval([k \in 1..Len(steps) |-> steps[k].what])

\* the number of steps that run before one reads column c (all, if none does)
StepsBefore(c) ==
  Cardinality({k \in 1..Len(PageSteps) :
                 \A j \in 1..k : c \notin PageSteps[j].reads})

\* where a run ends in which preprocess_insurance_data raises: nothing of
\* the page is shown
PreprocessFailure == [failure |-> "preprocess", page |-> << >>]

\* where a run on a file without column m ends: in preprocess_insurance_data,
\* or in display_analysis after the steps shown
FailurePoint(m) ==
  IF Renamed(m) \in PreprocessReads
  THEN PreprocessFailure
  ELSE [failure |-> "display",
        page |-> Whats(SubSeq(PageSteps, 1, StepsBefore(Renamed(m))))]

\* data.query("gender == '<g>'")['claim_amount']
GenderClaims(d, g) ==
  ClaimsOf(d, SelectSeq(Eval([k \in 1..Len(d) |-> k]),
                        LAMBDA r : PdEq(d[r].gender, Str(g))))

\* ff.create_distplot([xs], ...) fits scipy's gaussian_kde: it raises on
\* fewer than two values and on values that are all equal (their
\* covariance is singular)
KdeFails(xs) == Len(xs) < 2 \/ \A k \in 1..Len(xs) : xs[k] = xs[1]

\* plotly_gender, the first chart of the page, raises
GenderChartFails(d) ==
  KdeFails(GenderClaims(d, "Male")) \/ KdeFails(GenderClaims(d, "Female"))

\* where a run ends whose gender chart raises: in display_analysis, before
\* the first step is shown
GenderChartFailure ==
  [failure |-> "chart", page |-> Whats(SubSeq(PageSteps, 1, 0))]

\* the frame without column c
WithoutColumn(d, c) ==
  Eval([i \in 1..Len(d) |-> [f \in (DOMAIN d[i]) \ {c} |-> d[i][f]]])

\* where a run on a file without column m ends, d the frame of the file's
\* other columns: in preprocess_insurance_data; or at the gender chart, the
\* first step, with the KeyError for a column it reads or else with its own
\* error; or at the first later step that reads the column
RunFailure(d, m) ==
  IF Renamed(m) \in PreprocessReads \/ StepsBefore(Renamed(m)) = 0
  THEN FailurePoint(m)
  ELSE IF GenderChartFails(d) THEN GenderChartFailure
  ELSE FailurePoint(m)

\* the age slider is on the page
SliderShown(pg) == \E k \in 1..Len(pg) : pg[k] = "slider"

\* the number of select boxes on the page, the first ones of Fields
BoxesShown(pg) == Cardinality({k \in 1..Len(pg) : pg[k] = "selectbox"})

\* the select box of field f is on the page
BoxShown(pg, f) == \E k \in 1..BoxesShown(pg) : Fields[k] = f

(***************************************************************************)
(* The state: the input file, the widgets and what the last pass computed  *)
(***************************************************************************)
VARIABLES csv, data, min_age, max_age, status, age_cond, conditions,
          all_conditions, selected, excluded, description_table, hist_data,
          rendered, bar_data, missing, failure, page

vars == << csv, data, min_age, max_age, status, age_cond, conditions,
           all_conditions, selected, excluded, description_table, hist_data,
           rendered, bar_data, missing, failure, page >>

\* A run that ends with an exception at point (KeyError for a missing column
\* m, or the gender chart's error), the widgets at lo, hi, st.  d is the frame
\* bound to data when the run ends (none if preprocess_insurance_data
\* raised).  The run has assigned min_age, max_age and age_condition if it
\* got to the slider, and the status and the condition of each select box it
\* got to; it has computed nothing of what follows the select boxes.
Abort(file, m, point, d, lo, hi, st) ==
  /\ csv' = file
  /\ missing' = m
  /\ failure' = point.failure
  /\ page' = point.page
  /\ data' = d
  /\ min_age' = IF SliderShown(point.page) THEN lo ELSE 0
  /\ max_age' = IF SliderShown(point.page) THEN hi ELSE 0
  /\ status' = [f \in FieldSet |-> IF BoxShown(point.page, f) THEN st[f] ELSE None]
  /\ age_cond' = IF SliderShown(point.page) THEN age_condition(d, lo, hi)
                 ELSE << >>
  /\ conditions' = Eval([k \in 1..BoxesShown(point.page) |->
                           Condition(d, Fields[k], st[Fields[k]])])
  /\ all_conditions' = << >>
  /\ selected' = << >>
  /\ excluded' = << >>
  /\ description_table' = << >>
  /\ hist_data' = << >>
  /\ rendered' = << >>
  /\ bar_data' = << >>

\* the mask kept from the previous run while the select boxes are unchanged
PassCachedMask(file, lo, hi, st) ==
  /\ csv' = file
  /\ data' = preprocess_insurance_data(read_csv(file))
  /\ min_age' = lo
  /\ max_age' = hi
  /\ status' = st
  /\ age_cond' = age_condition(data', min_age', max_age')
  /\ conditions' = Conditions(data', status')
  /\ all_conditions' = IF st = status /\ file = csv /\ Len(all_conditions) = Len(data')
                       THEN all_conditions
                       ELSE AllConditions(age_cond', conditions')
  /\ selected' = Selected(all_conditions')
  /\ excluded' = Excluded(all_conditions')
  /\ description_table' = DescriptionTable(data', selected', excluded')
  /\ hist_data' = HistData(data', selected')
  /\ rendered' = Rendered(data', selected')
  /\ bar_data' = BarData(description_table')
  /\ missing' = "none"
  /\ failure' = "none"
  /\ page' = Whats(PageSteps)

\* the in-place drop of label 2 done on data instead of description_table
PassDropsFromData(file, lo, hi, st) ==
  LET d == preprocess_insurance_data(read_csv(file))
      mask == AllConditions(age_condition(d, lo, hi), Conditions(d, st))
  IN  /\ csv' = file
      /\ data' = SelectSeq(d, LAMBDA r : r # d[DroppedLabel + 1])
      /\ min_age' = lo
      /\ max_age' = hi
      /\ status' = st
      /\ age_cond' = age_condition(d, lo, hi)
      /\ conditions' = Conditions(d, st)
      /\ all_conditions' = mask
      /\ selected' = Selected(mask)
      /\ excluded' = Excluded(mask)
      /\ description_table' = DescriptionTable(d, Selected(mask), Excluded(mask))
      /\ hist_data' = HistData(d, Selected(mask))
      /\ rendered' = Rendered(d, Selected(mask))
      /\ bar_data' = BarData(description_table')
      /\ missing' = "none"
      /\ failure' = "none"
      /\ page' = Whats(PageSteps)

\* one run of display_analysis from the file, with the widgets at lo, hi, st
Pass(file, lo, hi, st) ==
  LET df_ins == preprocess_insurance_data(read_csv(file))
  IN
  IF PreprocessRaises(read_csv(file))
  THEN Abort(file, "none", PreprocessFailure, << >>, lo, hi, st)
  ELSE IF GenderChartFails(df_ins)
  THEN Abort(file, "none", GenderChartFailure, df_ins, lo, hi, st)
  ELSE
  /\ csv' = file
  /\ data' = df_ins
  /\ min_age' = lo
  /\ max_age' = hi
  /\ status' = st
  /\ age_cond' = age_condition(data', min_age', max_age')
  /\ conditions' = Conditions(data', status')
  /\ all_conditions' = AllConditions(age_cond', conditions')
  /\ selected' = Selected(all_conditions')
  /\ excluded' = Excluded(all_conditions')
  /\ description_table' = DescriptionTable(data', selected', excluded')
  /\ hist_data' = HistData(data', selected')
  /\ rendered' = Rendered(data', selected')
  /\ bar_data' = BarData(description_table')
  /\ missing' = "none"
  /\ failure' = "none"
  /\ page' = Whats(PageSteps)

\* the first run on one input file: the slider at (min, max), every select
\* box at index 0; nothing of it if preprocess_insurance_data or the gender
\* chart raises
FirstRun(file) ==
  IF PreprocessRaises(read_csv(file))
  THEN
  /\ csv = file
  /\ missing = "none"
  /\ failure = PreprocessFailure.failure
  /\ page = PreprocessFailure.page
  /\ data = << >>
  /\ min_age = 0
  /\ max_age = 0
  /\ status = [f \in FieldSet |-> None]
  /\ age_cond = << >>
  /\ conditions = << >>
  /\ all_conditions = << >>
  /\ selected = << >>
  /\ excluded = << >>
  /\ description_table = << >>
  /\ hist_data = << >>
  /\ rendered = << >>
  /\ bar_data = << >>
  ELSE IF GenderChartFails(preprocess_insurance_data(read_csv(file)))
  THEN
  /\ csv = file
  /\ missing = "none"
  /\ failure = GenderChartFailure.failure
  /\ page = GenderChartFailure.page
  /\ data = preprocess_insurance_data(read_csv(csv))
  /\ min_age = 0
  /\ max_age = 0
  /\ status = [f \in FieldSet |-> None]
  /\ age_cond = << >>
  /\ conditions = << >>
  /\ all_conditions = << >>
  /\ selected = << >>
  /\ excluded = << >>
  /\ description_table = << >>
  /\ hist_data = << >>
  /\ rendered = << >>
  /\ bar_data = << >>
  ELSE
  /\ csv = file
  /\ data = preprocess_insurance_data(read_csv(csv))
  /\ min_age = MinAge(data)
  /\ max_age = MaxAge(data)
  /\ status = [f \in FieldSet |-> Options(data, f)[1]]
  /\ age_cond = age_condition(data, min_age, max_age)
  /\ conditions = Conditions(data, status)
  /\ all_conditions = AllConditions(age_cond, conditions)
  /\ selected = Selected(all_conditions)
  /\ excluded = Excluded(all_conditions)
  /\ description_table = DescriptionTable(data, selected, excluded)
  /\ hist_data = HistData(data, selected)
  /\ rendered = Rendered(data, selected)
  /\ bar_data = BarData(description_table)
  /\ missing = "none"
  /\ failure = "none"
  /\ page = Whats(PageSteps)

Init == \E file \in 0..MaxFile : FirstRun(file)

\* one run of display_analysis on a file that lacks column m (or none), the
\* widgets at lo, hi, st
Run(file, m, lo, hi, st) ==
  IF m = "none" THEN Pass(file, lo, hi, st)
  ELSE IF PreprocessRaises(read_csv(file))
  THEN Abort(file, m, PreprocessFailure, << >>, lo, hi, st)
  ELSE LET d == WithoutColumn(preprocess_insurance_data(read_csv(file)),
                              Renamed(m))
       IN  Abort(file, m, RunFailure(d, m),
                 IF RunFailure(d, m).failure = "preprocess" THEN << >> ELSE d,
                 lo, hi, st)

ActiveCount(st) == Cardinality({f \in FieldSet : st[f] # None})

\* the user moves the age slider, which the last run has shown; the script
\* reruns
Slider ==
  /\ SliderShown(page)
  /\ \E lo \in MinAge(data)..MaxAge(data), hi \in MinAge(data)..MaxAge(data) :
       /\ lo <= hi
       /\ << lo, hi >> # << min_age, max_age >>
       /\ Run(csv, missing, lo, hi, status)

\* the user picks another option of one select box, which the last run has
\* shown; the script reruns
SelectBox ==
  \E f \in FieldSet :
    /\ BoxShown(page, f)
    /\ \E k \in 1..Len(Options(data, f)) :
         LET st == [status EXCEPT ![f] = Options(data, f)[k]]
         IN  /\ Options(data, f)[k] # status[f]
             /\ ActiveCount(st) <= MaxActive
             /\ Run(csv, missing, min_age, max_age, st)

Next == Slider \/ SelectBox

Spec == Init /\ [][Next]_vars

(***************************************************************************)
(* The user works down the page and sets one select box after the other to *)
(* the value one record has in that field (a box stays at None where the   *)
(* record's value is not among the options).                               *)
(***************************************************************************)
\* the option of field f that record r asks for
FillValue(d, r, f) ==
  IF \E k \in 1..Len(Options(d, f)) : Options(d, f)[k] = d[r][f]
  THEN d[r][f]
  ELSE None

FillBox ==
  \E r \in 1..Len(data) :
    \E k \in 1..Len(Fields) :
      /\ \A j \in 1..(k - 1) : status[Fields[j]] = FillValue(data, r, Fields[j])
      /\ \A j \in k..Len(Fields) : status[Fields[j]] = None
      /\ FillValue(data, r, Fields[k]) # None
      /\ Pass(csv, min_age, max_age,
              [status EXCEPT ![Fields[k]] = FillValue(data, r, Fields[k])])

NextFill == Slider \/ FillBox

SpecFill == Init /\ [][NextFill]_vars

\* the page over the files with tied claim amounts: in file 2 every record
\* but the first and the last claims 5, in file 3 every record but the 9th
\* and the 10th claims 1
TiesFiles == 2..3

SpecTies == (\E file \in TiesFiles : FirstRun(file)) /\ [][Next]_vars

(***************************************************************************)
(* The app started on a file that may lack one of the required columns.    *)
(***************************************************************************)
\* a file in which every male record claims the same amount
FlatFile == 4

\* the app is started on another file, which may lack one of its columns: a
\* first run, the widgets at their defaults (the slider at the least and the
\* largest age of the file, which preprocess_insurance_data leaves as they
\* are)
Restart ==
  \E file \in (0..MaxFile) \cup {FlatFile, BlankFile},
     m \in RequiredColumns \cup DroppedColumns \cup {"none"} :
    /\ << file, m >> # << csv, missing >>
    /\ LET raw == read_csv(file)
       IN  Run(file, m, MinAge(raw), MaxAge(raw), [f \in FieldSet |-> None])

NextLoad == Slider \/ SelectBox \/ Restart

SpecLoad == Init /\ [][NextLoad]_vars

(***************************************************************************)
(* Properties                                                              *)
(***************************************************************************)
RowSet(rows) == {rows[k] : k \in 1..Len(rows)}

\* equality of a record's value with a chosen value; a missing value
\* equals nothing
Equals(cell, v) == cell.kind # "nan" /\ cell = v

\* C1: the selected rows (mask true) and the excluded rows (mask negated)
\* are disjoint, together hold every record, and their counts add up to the
\* number of records
MaskPartition ==
  /\ RowSet(selected) = {i \in 1..Len(data) : all_conditions[i]}
  /\ RowSet(selected) \cap RowSet(excluded) = {}
  /\ RowSet(selected) \cup RowSet(excluded) = 1..Len(data)
  /\ Len(selected) + Len(excluded) = Len(data)

\* a pass with one select box set that leaves rows on both sides
MaskPartitionWitness ==
  /\ ActiveCount(status) >= 1
  /\ Len(selected) > 0
  /\ Len(excluded) > 0

\* C2: a record is selected if and only if its age lies in the chosen range
\* and, for every select box that is not at None, the record's value equals
\* the chosen value
MaskIsConjunction ==
  \A i \in 1..Len(data) :
    all_conditions[i] <=>
      /\ min_age <= data[i].age
      /\ data[i].age <= max_age
      /\ \A f \in FieldSet : status[f] # None => Equals(data[i][f], status[f])

\* C3: for every select box set to a string or a number it offers, the
\* field's condition is true exactly for the records whose value equals it
ConditionIsEquality ==
  \A k \in 1..Len(Fields) :
    status[Fields[k]].kind \in {"str", "num"} =>
      \A i \in 1..Len(data) :
        At(conditions[k], i) <=> Equals(data[i][Fields[k]], status[Fields[k]])

\* C4: a step that switches one select box to None, the slider and the
\* other boxes unchanged, removes no row from the selection
NoneNeverRemoves ==
  [][\A f \in FieldSet :
       ( /\ status[f] # None
         /\ status' = [status EXCEPT ![f] = None]
         /\ min_age' = min_age
         /\ max_age' = max_age
         /\ csv' = csv )
       => \A i \in 1..Len(data) : all_conditions[i] => all_conditions'[i]]_vars

\* a select box is set and keeps out a row the age range lets in: switching
\* that box to None is the step of C4
NoneNeverRemovesWitness ==
  \E k \in 1..Len(Fields) :
    /\ status[Fields[k]] # None
    /\ \E i \in 1..Len(data) : age_cond[i] /\ ~At(conditions[k], i)

\* C5: with every select box at None and the slider at (minimum, maximum)
\* age the mask is true for every record: all rows selected, none excluded
InertIdentity ==
  ( /\ \A f \in FieldSet : status[f] = None
    /\ min_age = MinAge(data)
    /\ max_age = MaxAge(data) )
  => /\ \A i \in 1..Len(data) : all_conditions[i]
     /\ selected = [i \in 1..Len(data) |-> i]
     /\ excluded = << >>

\* the pass with every control at its default, over ages that differ
InertIdentityWitness ==
  /\ \A f \in FieldSet : status[f] = None
  /\ min_age = MinAge(data)
  /\ max_age = MaxAge(data)
  /\ min_age < max_age
  /\ Len(selected) = NumRows

\* the controls are those built from record r: the slider at r's age, every
\* select box at r's value where the box offers it
BuiltFrom(r) ==
  /\ min_age = data[r].age
  /\ max_age = data[r].age
  /\ \A f \in FieldSet : status[f] = FillValue(data, r, f)

\* C6: the controls built from a record of the dataset select that record
RoundTrip == \A r \in 1..Len(data) : BuiltFrom(r) => all_conditions[r]

TableLabels == << "Number of Rows", "Minimum Value", "25th Percentile Value",
                 "Median Value", "Average Value", "75th Percentile Value",
                 "Maximum Value" >>

\* C7: the comparison table has exactly the seven rows Number of Rows,
\* Minimum, 25th Percentile, Median, Average, 75th Percentile, Maximum Value,
\* in this order, and no Standard Deviation row
TableShape ==
  /\ Len(description_table) = Len(TableLabels)
  /\ \A k \in 1..Len(TableLabels) : description_table[k].Statistic = TableLabels[k]

\* the table of a pass that selects nothing (the all-false mask)
TableShapeWitness ==
  /\ Len(selected) = 0
  /\ Len(description_table) = Len(TableLabels)

\* the place in describe()'s output of the statistic a row label names
StatPlace(label) ==
  CASE label = "Number of Rows" -> 1
    [] label = "Average Value" -> 2
    [] label = "Standard Deviation" -> 3
    [] label = "Minimum Value" -> 4
    [] label = "25th Percentile Value" -> 5
    [] label = "Median Value" -> 6
    [] label = "75th Percentile Value" -> 7
    [] label = "Maximum Value" -> 8
    [] OTHER -> 0

\* C8: in every row of the table the three cells are the statistic the row
\* label names, over the selected rows, the excluded rows and all rows
TablePairing ==
  LET sel == DescribeValues(ClaimsOf(data, selected))
      exc == DescribeValues(ClaimsOf(data, excluded))
      all == DescribeValues(Column(data, "claim_amount"))
  IN  \A k \in 1..Len(description_table) :
        LET row == description_table[k]
            j == StatPlace(row.Statistic)
        IN  /\ j # 0
            /\ row.Selected = sel[j]
            /\ row.Excluded = exc[j]
            /\ row.All = all[j]

\* a table whose columns differ and whose average differs from its median
TablePairingWitness ==
  /\ Len(selected) > 1
  /\ Len(excluded) > 1
  /\ \E j, k \in 1..Len(description_table) :
       /\ description_table[j].Statistic = "Average Value"
       /\ description_table[k].Statistic = "Median Value"
       /\ description_table[j].Selected # description_table[k].Selected
       /\ description_table[j].Selected # description_table[j].Excluded
       /\ description_table[j].Excluded # description_table[j].All

\* C9 as stated: when no row is selected the seven-row table is shown and
\* every cell of its Selected Data column is missing
EmptySelectionAllMissing ==
  Len(selected) = 0 =>
    /\ Len(description_table) = Len(TableLabels)
    /\ \E k \in 1..Len(rendered) : rendered[k].what = "dataframe"
    /\ \A k \in 1..Len(description_table) : description_table[k].Selected.nan

\* C9 as amended: when no row is selected the seven-row table is shown, its
\* Number of Rows cell of Selected Data is 0 and every other cell of that
\* column is missing
EmptySelectionTable ==
  Len(selected) = 0 =>
    /\ Len(description_table) = Len(TableLabels)
    /\ \E k \in 1..Len(rendered) : rendered[k].what = "dataframe"
    /\ \A k \in 1..Len(description_table) :
         IF description_table[k].Statistic = "Number of Rows"
         THEN description_table[k].Selected = Cell(0)
         ELSE description_table[k].Selected.nan

\* a pass whose active controls match no row
EmptySelectionWitness ==
  /\ Len(selected) = 0
  /\ ActiveCount(status) >= 1
  /\ \E k \in 1..Len(rendered) : rendered[k].what = "dataframe"

Shown(what) == {k \in 1..Len(rendered) : rendered[k].what = what}

\* C10: with fewer than 10 selected rows no histogram and no boxplot is
\* drawn; with 10 or more exactly one histogram and one boxplot are drawn,
\* both of the same variant, the trimmed or the full one
SmallSampleGuard ==
  IF Len(selected) < 10
  THEN /\ Shown("histogram") = {}
       /\ Shown("boxplot") = {}
       /\ hist_data = << >>
  ELSE /\ Cardinality(Shown("histogram")) = 1
       /\ Cardinality(Shown("boxplot")) = 1
       /\ \A h \in Shown("histogram"), b \in Shown("boxplot") :
            /\ rendered[h].condition = rendered[b].condition
            /\ rendered[h].condition \in
                 {"Selected Data without Extreme Outliers", "Selected Data"}

\* a pass that selects exactly 10 rows and draws the charts
SmallSampleGuardWitness ==
  /\ Len(selected) = 10
  /\ Shown("histogram") # {}

\* a pass that selects exactly 9 rows and draws no chart
SmallSampleNineWitness ==
  /\ Len(selected) = 9
  /\ Shown("histogram") = {}

\* C11: the small-sample remark is written exactly when fewer than 10 rows
\* are selected, and never in a pass that draws a histogram or a boxplot
SmallSampleAdvisory ==
  /\ Shown("write") # {} <=> Len(selected) < 10
  /\ ~(Shown("write") # {} /\ (Shown("histogram") # {} \/ Shown("boxplot") # {}))

TrimmedLabel == "Selected Data without Extreme Outliers"
FullLabel == "Selected Data"

\* twenty times max - p90 and twenty times p90 - p75 of the selected rows'
\* claim values (p90 and p75 by linear interpolation)
TailSpread20 ==
  LET s == SortAsc(ClaimsOf(data, selected))
  IN  20 * s[Len(s)] - 2 * QuantileTimes(s, 9, 10)

BodySpread20 ==
  LET s == SortAsc(ClaimsOf(data, selected))
  IN  2 * QuantileTimes(s, 9, 10) - 5 * QuantileTimes(s, 3, 4)

\* C12: with at least 10 selected rows the histogram and the boxplot carry
\* the label of the trimmed variant if max - p90 > p90 - p75 over the
\* selected rows, and the label of the full variant if the two spreads are
\* equal or the tail spread is the smaller one
SkewRule ==
  Len(selected) >= 10 =>
    \A k \in Shown("histogram") \cup Shown("boxplot") :
      rendered[k].condition =
        IF TailSpread20 > BodySpread20 THEN TrimmedLabel ELSE FullLabel

\* at least 10 rows selected, not all rows, whose two spreads are equal
SkewRuleWitness ==
  /\ Len(selected) >= 10
  /\ Len(excluded) > 0
  /\ TailSpread20 = BodySpread20
  /\ \E k \in Shown("histogram") : rendered[k].condition = FullLabel

\* a selection drawn trimmed although the full dataset is not skewed, or
\* drawn in full although the full dataset is skewed
SkewRuleSubsetWitness ==
  /\ Len(selected) >= 10
  /\ Len(excluded) > 0
  /\ \E k \in Shown("histogram") :
       (rendered[k].condition = TrimmedLabel)
         # DistributionSkew(Column(data, "claim_amount"))

\* the ten values 1, 2, ..., 9, 1000 as a dataset
SkewExample == [i \in 1..10 |-> [claim_amount |-> IF i = 10 THEN 1000 ELSE i]]

\* C13: with the trimmed variant the rows handed to the histogram and the
\* boxplot are the selected rows whose claim value is strictly below the
\* 90th percentile of the selected rows, the maximum never among them; with
\* the full variant they are all selected rows; for 1, 2, ..., 9, 1000 the
\* variant is the trimmed one and 1000 is left out
TrimmedSubset ==
  /\ Len(selected) >= 10 =>
       LET xs == ClaimsOf(data, selected)
           s == SortAsc(xs)
           p90 == QuantileTimes(s, 9, 10)
       IN  IF \E k \in Shown("histogram") \cup Shown("boxplot") :
                 rendered[k].condition = TrimmedLabel
           THEN /\ hist_data =
                     SelectSeq(selected, LAMBDA r : 10 * data[r].claim_amount < p90)
                /\ \A k \in 1..Len(hist_data) :
                     data[hist_data[k]].claim_amount < s[Len(s)]
           ELSE hist_data = selected
  /\ DistributionSkew(Column(SkewExample, "claim_amount"))
  /\ BelowP90(SkewExample, [i \in 1..10 |-> i]) = [i \in 1..9 |-> i]

\* a trimmed selection that is not the whole dataset and loses more rows
\* than its maximum alone
TrimmedSubsetWitness ==
  /\ Len(selected) >= 10
  /\ Len(excluded) > 0
  /\ TailSpread20 > BodySpread20
  /\ Len(hist_data) < Len(selected)
  /\ \E k \in Shown("boxplot") : rendered[k].condition = TrimmedLabel

\* a selection of at least 10 rows handed over in full
FullSubsetWitness ==
  /\ Len(selected) >= 10
  /\ Len(excluded) > 0
  /\ hist_data = selected

\* C14: the age condition of a record is true exactly if min_age <= age <=
\* max_age: true for a record whose age is the lower or the upper end of the
\* chosen range, false for one outside; no record outside is selected, and
\* with every select box at None the records in the range are the selection
AgeClosedInterval ==
  /\ \A i \in 1..Len(data) :
       /\ age_cond[i] <=> (min_age <= data[i].age /\ data[i].age <= max_age)
       /\ data[i].age \in {min_age, max_age} => age_cond[i]
       /\ (data[i].age < min_age \/ data[i].age > max_age) => ~all_conditions[i]
  /\ ActiveCount(status) = 0 =>
       RowSet(selected) =
         {i \in 1..Len(data) : min_age <= data[i].age /\ data[i].age <= max_age}

\* a range with different ends, records at both ends selected and a record
\* outside the range excluded
AgeClosedIntervalWitness ==
  /\ min_age < max_age
  /\ \E i \in RowSet(selected) : data[i].age = min_age
  /\ \E i \in RowSet(selected) : data[i].age = max_age
  /\ \E i \in RowSet(excluded) : data[i].age < min_age \/ data[i].age > max_age

\* the values a select box offers after its first option
Offered(f) == {Options(data, f)[k] : k \in 2..Len(Options(data, f))}

\* C15: every select box offers None first, then each value of its column
\* once (authorities_contacted: each value that is not missing); the value
\* a box holds is one it offers, and in the first run every box is at None
OfferedOptions ==
  /\ \A f \in FieldSet :
       LET o == Options(data, f)
       IN  /\ o[1] = None
           /\ \A j, k \in 2..Len(o) : j # k => o[j] # o[k]
           /\ None \notin Offered(f)
           /\ Offered(f) =
                IF f = "authorities_contacted"
                THEN {data[i][f] : i \in 1..Len(data)} \ {NaN}
                ELSE {data[i][f] : i \in 1..Len(data)}
           /\ status[f] \in Offered(f) \cup {None}
  /\ Init => \A f \in FieldSet : status[f] = None

\* a file with missing values in authorities_contacted and property_damage:
\* the first box does not offer the missing value, the second one does, and
\* a box has been moved away from None
OfferedOptionsWitness ==
  /\ \E i \in 1..Len(data) : data[i].authorities_contacted = NaN
  /\ Len(Options(data, "authorities_contacted")) = 3
  /\ NaN \in Offered("property_damage")
  /\ Len(Options(data, "property_damage")) = 4
  /\ ActiveCount(status) = 1

\* C17: a run on a file that lacks a required column fails in loading and
\* preprocessing, before any chart, table or control is shown
LoadTimeFatal ==
  missing \in RequiredColumns =>
    /\ failure = "preprocess"
    /\ page = << >>
    /\ rendered = << >>

\* a run on a file without insured_sex, age or collision_type: it ends in
\* preprocess_insurance_data
PreprocessFailureWitness ==
  /\ missing # "none"
  /\ failure = "preprocess"
  /\ page = << >>

\* C18: every pass shows the comparison table once and draws the grouped bar
\* plot once, whatever the number of selected rows; the bar plot is drawn
\* from the table's Average Value and Median Value rows with their Selected,
\* Excluded and All cells
AlwaysTableAndBar ==
  /\ Cardinality(Shown("dataframe")) = 1
  /\ Cardinality(Shown("bar")) = 1
  /\ Len(description_table) = Len(TableLabels)
  /\ Len(bar_data) = 2
  /\ {bar_data[k].Statistic : k \in 1..Len(bar_data)}
       = {"Average Value", "Median Value"}
  /\ \A k \in 1..Len(bar_data) :
       \E j \in 1..Len(description_table) :
         /\ description_table[j] = bar_data[k]
         /\ {"Selected", "Excluded", "All"} \subseteq DOMAIN bar_data[k]

\* a pass with some, but fewer than 10, selected rows: no distribution
\* chart, the table and the bar plot shown
AlwaysTableAndBarWitness ==
  /\ Len(selected) > 0
  /\ Len(selected) < 10
  /\ Shown("histogram") = {}
  /\ Shown("dataframe") # {}
  /\ Shown("bar") # {}

\* a pass that selects nothing and still shows the table and the bar plot
EmptyTableAndBarWitness ==
  /\ Len(selected) = 0
  /\ Shown("bar") # {}
  /\ \A k \in 1..Len(bar_data) : bar_data[k].Selected.nan

\* C19: what the latest pass computed is determined by the file and the
\* current values of the slider and the select boxes alone: the mask, the
\* comparison table, the rows handed to the charts and what is shown are
\* the ones a first pass with these control values computes
Stateless ==
  LET d == preprocess_insurance_data(read_csv(csv))
      mask == AllConditions(age_condition(d, min_age, max_age),
                            Conditions(d, status))
  IN  /\ all_conditions = mask
      /\ selected = Selected(mask)
      /\ excluded = Excluded(mask)
      /\ description_table = DescriptionTable(d, Selected(mask), Excluded(mask))
      /\ hist_data = HistData(d, Selected(mask))
      /\ rendered = Rendered(d, Selected(mask))

\* the slider and a select box both away from their defaults: control
\* values reached by moving the slider first or the box first
StatelessWitness ==
  /\ ActiveCount(status) = 1
  /\ << min_age, max_age >> # << MinAge(data), MaxAge(data) >>
  /\ Len(selected) > 0
  /\ Len(excluded) > 0

\* C20: no pass changes the dataset: after every pass the records, their
\* order and their values are the ones loading and preprocessing gave
DatasetUnchanged ==
  [][/\ data' = data
     /\ data' = preprocess_insurance_data(read_csv(csv))]_vars

\* a pass that selected some of the records, handed rows to the charts and
\* dropped and reordered rows of the table, over the dataset in full
DatasetUnchangedWitness ==
  /\ Len(data) = NumRows
  /\ ActiveCount(status) = 1
  /\ Len(selected) >= 10
  /\ Len(excluded) > 0
  /\ Len(hist_data) > 0
  /\ Len(description_table) = Len(TableLabels)

\* C21: whenever the trimmed charts are chosen (at least 10 selected records
\* whose claim amounts have max - p90 > p90 - p75), the rows handed to the
\* histogram and the boxplot are not empty: some selected claim amount is
\* strictly below the 90th percentile, ties included
TrimmedNonEmpty ==
  (/\ ShowDistribution(Len(selected))
   /\ TailSpread20 > BodySpread20) => Len(hist_data) > 0

\* the trimmed charts chosen for a selection that keeps rows below p90
TrimmedNonEmptyWitness ==
  /\ ShowDistribution(Len(selected))
  /\ TailSpread20 > BodySpread20
  /\ Len(hist_data) > 0
  /\ Len(hist_data) < Len(selected)
  /\ csv \in TiesFiles

\* the All Data cells of a table, top to bottom, each with its label
AllDataColumn(table) ==
  Eval([k \in 1..Len(table) |-> << table[k].Statistic, table[k].All >>])

\* C22: the All Data column of the Comparison Table does not depend on the
\* mask: from one configuration of the controls to the next, over the same
\* file, the seven All Data cells stay the same
AllDataFixed ==
  [][csv' = csv =>
       /\ Len(description_table') = Len(TableLabels)
       /\ AllDataColumn(description_table') =
            AllDataColumn(description_table)]_vars

\* a configuration whose mask splits the records, so that the Selected Data
\* and Excluded Data cells both differ from the All Data cells
AllDataFixedWitness ==
  /\ ActiveCount(status) = 1
  /\ Len(selected) > 0
  /\ Len(excluded) > 0
  /\ Len(description_table) = Len(TableLabels)
  /\ \E k \in 1..Len(description_table) :
        /\ description_table[k].Selected # description_table[k].All
        /\ description_table[k].Excluded # description_table[k].All

====
